---- MODULE Spec2Model ----
(***************************************************************************)
(* BringYourSub: the chunking-and-reassembly pipeline.                     *)
(*                                                                         *)
(*   chunker   src/bringyoursub-chrome/shared/ai-core/chunker.ts           *)
(*   pipeline  src/unnamed/part_005 (class AIPipeline)                     *)
(*   handler   src/bringyoursub-firefox/extension/background/ai.ts         *)
(*                                                                         *)
(* A text is a sequence of one-character strings.  Times are exact         *)
(* rationals [n, d] (the code computes them in double precision).          *)
(***************************************************************************)
EXTENDS Integers, Sequences, FiniteSets, TLC

(***************************************************************************)
(* Bounds of the model.                                                    *)
(***************************************************************************)
\* longest transcript text enumerated for the chunker's specification
MaxLen == 6

\* retries followed: stats.retriedChunks grows without bound when a content
\* keeps meeting the size limit, so no answer that leads to a further retry
\* is taken once the runs have made MaxRetried retries between them
MaxRetried == 4

\* the same for the runs of concurrent handlers
MaxConcRetried == 1

\* translateChunks runs followed on one pipeline
MaxRuns == 2

\* estimateTranscript is applied to texts of up to EstimateSteps half
\* minutes (300 characters), one character more and one less
EstimateSteps == 121

\* length of the sentences of the long transcript of a pipeline run
LongSentenceLen == 60

(***************************************************************************)
(* Characters and text helpers (JavaScript String operations).             *)
(***************************************************************************)
\* the characters the regular expressions name: [.!?]
Terminals == {".", "!", "?"}

\* the characters \s and String.prototype.trim treat as whitespace
Whitespace == {" ", "\n", "\t"}

\* the alphabet of the enumerated transcripts
Chars == {"a", " ", ".", "?"}

IsTerm(c) == c \in Terminals

IsSpace(c) == c \in Whitespace

RECURSIVE TrimStart(_)
TrimStart(s) ==
    IF s # <<>> /\ IsSpace(Head(s)) THEN TrimStart(Tail(s)) ELSE s

RECURSIVE TrimEnd(_)
TrimEnd(s) ==
    IF s # <<>> /\ IsSpace(s[Len(s)]) THEN TrimEnd(SubSeq(s, 1, Len(s) - 1)) ELSE s

\* String.prototype.trim
Trim(s) == TrimEnd(TrimStart(s))

\* Array.prototype.join(" ")
RECURSIVE JoinSpace(_)
JoinSpace(parts) ==
    IF parts = <<>> THEN <<>>
    ELSE IF Len(parts) = 1 THEN parts[1]
    ELSE parts[1] \o <<" ">> \o JoinSpace(Tail(parts))

\* String.prototype.substring(0, n)
Substring0(s, n) == SubSeq(s, 1, IF Len(s) < n THEN Len(s) ELSE n)

\* Math.ceil(a / b) for a >= 0, b > 0
CeilDiv(a, b) == (a + b - 1) \div b

(***************************************************************************)
(* The sentence regular expression                                         *)
(*     /[^.!?]+[.!?]+(?:\s|$)|[^.!?]+$/g                                   *)
(* as String.prototype.match evaluates it: at each start position the      *)
(* first alternative is the maximal run of non-terminals, the maximal run  *)
(* of terminals, then one whitespace character or the end of the input     *)
(* (giving characters back never helps: the next character is then of the  *)
(* class just left); the second alternative is a run of non-terminals      *)
(* reaching the end.  A position with no match is skipped.                 *)
(***************************************************************************)
RECURSIVE NonTermRun(_, _)
NonTermRun(t, i) ==
    IF i <= Len(t) /\ ~IsTerm(t[i]) THEN 1 + NonTermRun(t, i + 1) ELSE 0

RECURSIVE TermRun(_, _)
TermRun(t, i) ==
    IF i <= Len(t) /\ IsTerm(t[i]) THEN 1 + TermRun(t, i + 1) ELSE 0

\* after the non-terminals i..j-1 and the terminals j..k-1
MatchTail(t, j, k) ==
    IF k > j
    THEN IF k > Len(t) THEN k
         ELSE IF IsSpace(t[k]) THEN k + 1
         ELSE 0
    ELSE IF j > Len(t) THEN j
    ELSE 0

\* after the non-terminals i..j-1
MatchFrom(t, i, j) == IF j = i THEN 0 ELSE MatchTail(t, j, j + TermRun(t, j))

\* the position after the match that starts at i, or 0 when none starts there
MatchEnd(t, i) == MatchFrom(t, i, i + NonTermRun(t, i))

RECURSIVE MatchAll(_, _)
\* e = MatchEnd(t, i): the match found at i and the matches after it
MatchNext(t, i, e) ==
    IF e = 0 THEN MatchAll(t, i + 1)
    ELSE <<SubSeq(t, i, e - 1)>> \o MatchAll(t, e)

MatchAll(t, i) == IF i > Len(t) THEN <<>> ELSE MatchNext(t, i, MatchEnd(t, i))

\* m || [t]
\* a variant that takes every character for a sentence
Sentences_Chars(t) == [i \in 1..Len(t) |-> <<t[i]>>]

OrWhole(m, t) == IF m = <<>> THEN <<t>> ELSE m

\* text.match(re) || [text]
Sentences(t) == OrWhole(MatchAll(t, 1), t)

(***************************************************************************)
(* estimateTranscript                                                      *)
(***************************************************************************)
charsPerMinute == 600

\* a variant that warns only beyond 30 minutes
estimateTranscript_LateWarning(t) ==
    [isLongVideo |-> Len(t) > 15 * charsPerMinute,
     estimatedDuration |-> (2 * Len(t) + charsPerMinute) \div (2 * charsPerMinute),
     recommendedChunkSize |-> IF Len(t) <= 5 * charsPerMinute THEN 3000
                              ELSE IF Len(t) <= 15 * charsPerMinute THEN 2500
                              ELSE IF Len(t) <= 30 * charsPerMinute THEN 2000
                              ELSE IF Len(t) <= 60 * charsPerMinute THEN 1500
                              ELSE 1000,
     warningMessage |-> IF Len(t) <= 30 * charsPerMinute THEN "none" ELSE "very long"]

\* a variant whose first band ends before 5 minutes
estimateTranscript_Strict(t) ==
    [isLongVideo |-> Len(t) > 15 * charsPerMinute,
     estimatedDuration |-> (2 * Len(t) + charsPerMinute) \div (2 * charsPerMinute),
     recommendedChunkSize |-> IF Len(t) < 5 * charsPerMinute THEN 3000 ELSE 2500,
     warningMessage |-> IF Len(t) <= 15 * charsPerMinute THEN "none" ELSE "long"]

\* estimatedMinutes <= k  <=>  charCount <= k * charsPerMinute
estimateTranscript(t) ==
    LET charCount == Len(t)
        size == IF charCount <= 5 * charsPerMinute THEN 3000
                ELSE IF charCount <= 15 * charsPerMinute THEN 2500
                ELSE IF charCount <= 30 * charsPerMinute THEN 2000
                ELSE IF charCount <= 60 * charsPerMinute THEN 1500
                ELSE 1000
        warn == IF charCount <= 15 * charsPerMinute THEN "none"
                ELSE IF charCount <= 30 * charsPerMinute THEN "long"
                ELSE IF charCount <= 60 * charsPerMinute THEN "very long"
                ELSE "extremely long"
    IN  [isLongVideo |-> charCount > 15 * charsPerMinute,
         \* Math.round(charCount / 600)
         estimatedDuration |-> (2 * charCount + charsPerMinute) \div (2 * charsPerMinute),
         recommendedChunkSize |-> size,
         warningMessage |-> warn]

(***************************************************************************)
(* chunkTranscript                                                         *)
(***************************************************************************)
charactersPerToken == 4

charsPerSecond == 10

\* a variant that closes the current chunk at every sentence
ChunkStep_EverySentence(acc, trimmedSentence, maxChars) ==
    IF trimmedSentence = <<>> THEN acc
    ELSE IF Len(acc[2]) > 0
    THEN <<Append(acc[1], Trim(acc[2])), trimmedSentence>>
    ELSE <<acc[1], trimmedSentence>>

\* one iteration of the for loop of chunkTranscript: acc is
\* <<chunks, currentChunk>>
ChunkStep(acc, trimmedSentence, maxChars) ==
    IF trimmedSentence = <<>> THEN acc
    ELSE IF Len(acc[2]) + Len(trimmedSentence) > maxChars /\ Len(acc[2]) > 0
    THEN <<Append(acc[1], Trim(acc[2])), trimmedSentence>>
    ELSE <<acc[1],
           acc[2] \o (IF acc[2] # <<>> THEN <<" ">> ELSE <<>>) \o trimmedSentence>>

RECURSIVE ChunkLoop(_, _, _, _)
ChunkLoop(sentences, i, maxChars, acc) ==
    IF i > Len(sentences) THEN acc
    ELSE ChunkLoop(sentences, i + 1, maxChars,
                   ChunkStep(acc, Trim(sentences[i]), maxChars))

\* if (currentChunk.trim().length > 0) chunks.push(currentChunk.trim())
ChunkFlush(acc) ==
    IF Len(Trim(acc[2])) > 0 THEN Append(acc[1], Trim(acc[2])) ELSE acc[1]

\* a variant that numbers the chunks from 0
WithMetadata_ZeroBased(contents) ==
    [k \in 1..Len(contents) |->
        [index |-> k - 1,
         total |-> Len(contents),
         content |-> contents[k],
         estimatedDuration |-> CeilDiv(Len(contents[k]), charsPerSecond)]]

\* chunks.map((content, index) => ({index: index + 1, total, content, estimatedDuration}))
WithMetadata(contents) ==
    [k \in 1..Len(contents) |->
        [index |-> k,
         total |-> Len(contents),
         content |-> contents[k],
         estimatedDuration |-> CeilDiv(Len(contents[k]), charsPerSecond)]]

\* maxTokens = 0 stands for an omitted (or zero: both are falsy) argument
MaxChars(t, maxTokens) ==
    (IF maxTokens # 0 THEN maxTokens ELSE estimateTranscript(t).recommendedChunkSize)
        * charactersPerToken

chunkTranscript(t, maxTokens) ==
    WithMetadata(ChunkFlush(ChunkLoop(Sentences(t), 1, MaxChars(t, maxTokens),
                                      <<<<>>, <<>>>>)))

(***************************************************************************)
(* rechunkOnError                                                          *)
(***************************************************************************)
\* a variant that closes a group only once it is longer than targetSize
RechunkStep_Late(acc, currentChunk, targetSize) ==
    IF Len(currentChunk) > targetSize
    THEN <<Append(acc[1], JoinSpace(currentChunk)), <<>>>>
    ELSE <<acc[1], currentChunk>>

\* one iteration of the for loop of rechunkOnError: acc is
\* <<smallerChunks, currentChunk>>, currentChunk a list of trimmed sentences
RechunkStep(acc, currentChunk, targetSize) ==
    IF Len(currentChunk) >= targetSize
    THEN <<Append(acc[1], JoinSpace(currentChunk)), <<>>>>
    ELSE <<acc[1], currentChunk>>

RECURSIVE RechunkLoop(_, _, _, _)
RechunkLoop(sentences, i, targetSize, acc) ==
    IF i > Len(sentences) THEN acc
    ELSE RechunkLoop(sentences, i + 1, targetSize,
                     RechunkStep(acc, Append(acc[2], Trim(sentences[i])), targetSize))

\* a variant that drops the final partial group
RechunkFlush_Drop(acc) ==
    acc[1]

\* if (currentChunk.length > 0) smallerChunks.push(currentChunk.join(" "))
RechunkFlush(acc) ==
    IF Len(acc[2]) > 0 THEN Append(acc[1], JoinSpace(acc[2])) ELSE acc[1]

RechunkSentences(sentences, factor) ==
    WithMetadata(RechunkFlush(RechunkLoop(sentences, 1,
                                          CeilDiv(Len(sentences), factor),
                                          <<<<>>, <<>>>>)))

rechunkOnError(content, factor) == RechunkSentences(Sentences(content), factor)

(***************************************************************************)
(* Times: exact rationals n/d in lowest terms, d > 0.                      *)
(***************************************************************************)
RECURSIVE Gcd(_, _)
Gcd(a, b) == IF b = 0 THEN a ELSE Gcd(b, a % b)

Reduced(n, d, g) == IF g = 0 THEN [n |-> 0, d |-> 1] ELSE [n |-> n \div g, d |-> d \div g]

Rat(n, d) == Reduced(n, d, Gcd(n, d))

RatAdd(x, y) == Rat(x.n * y.d + y.n * x.d, x.d * y.d)

RatLess(x, y) == x.n * y.d < y.n * x.d

(***************************************************************************)
(* splitIntoSRTSegments, for text.length > 0.                              *)
(* charsPerSecond = text.length / totalDuration, so a run of k characters  *)
(* lasts k * totalDuration / text.length seconds (for totalDuration = 0    *)
(* charsPerSecond is Infinity and every run lasts 0 seconds).              *)
(***************************************************************************)
targetSegmentDuration == 5

\* the current segment is closed at endTime and trimmed starts the next one
SegmentClose(acc, trimmed, endTime) ==
    <<Append(acc[1], [content |-> acc[2], startTime |-> acc[3], endTime |-> endTime]),
      trimmed,
      endTime>>

\* one iteration of the for loop: acc is
\* <<segments, currentSegment, currentStartTime>>
SegmentStep(acc, trimmed, textLength, totalDuration) ==
    IF trimmed = <<>> THEN acc
    ELSE IF acc[2] # <<>>
            /\ (Len(acc[2]) + Len(trimmed)) * totalDuration
                   > targetSegmentDuration * textLength
    THEN SegmentClose(acc, trimmed,
                      RatAdd(acc[3], Rat(Len(acc[2]) * totalDuration, textLength)))
    ELSE <<acc[1],
           acc[2] \o (IF acc[2] # <<>> THEN <<" ">> ELSE <<>>) \o trimmed,
           acc[3]>>

RECURSIVE SegmentLoop(_, _, _, _, _)
SegmentLoop(sentences, i, textLength, totalDuration, acc) ==
    IF i > Len(sentences) THEN acc
    ELSE SegmentLoop(sentences, i + 1, textLength, totalDuration,
                     SegmentStep(acc, Trim(sentences[i]), textLength, totalDuration))

\* if (currentSegment) segments.push({..., endTime: totalDuration})
SegmentFlush(acc, totalDuration) ==
    IF acc[2] # <<>>
    THEN Append(acc[1], [content |-> acc[2],
                         startTime |-> acc[3],
                         endTime |-> Rat(totalDuration, 1)])
    ELSE acc[1]

splitIntoSRTSegments(t, totalDuration) ==
    SegmentFlush(SegmentLoop(Sentences(t), 1, Len(t), totalDuration,
                             <<<<>>, <<>>, Rat(0, 1)>>),
                 totalDuration)

(***************************************************************************)
(* generateSRT                                                             *)
(***************************************************************************)
Digit(k) == <<"0", "1", "2", "3", "4", "5", "6", "7", "8", "9">>[k + 1]

\* Number.prototype.toString for an integer k >= 0
RECURSIVE NumToString(_)
NumToString(k) == IF k < 10 THEN <<Digit(k)>> ELSE NumToString(k \div 10) \o <<Digit(k % 10)>>

\* String.prototype.padStart(width, '0')
RECURSIVE PadStart(_, _)
PadStart(s, width) == IF Len(s) >= width THEN s ELSE PadStart(<<"0">> \o s, width)

\* a variant that rounds the milliseconds to the nearest one
formatTime_Rounded(seconds) ==
    LET whole == seconds.n \div seconds.d
        hrs == whole \div 3600
        mins == (whole % 3600) \div 60
        secs == whole % 60
        ms == ((seconds.n % seconds.d) * 2000 + seconds.d) \div (2 * seconds.d)
    IN  PadStart(NumToString(hrs), 2) \o <<":">> \o PadStart(NumToString(mins), 2) \o <<":">>
          \o PadStart(NumToString(secs), 2) \o <<",">> \o PadStart(NumToString(ms), 3)

formatTime(seconds) ==
    LET whole == seconds.n \div seconds.d
        hrs == whole \div 3600
        mins == (whole % 3600) \div 60
        secs == whole % 60
        ms == ((seconds.n % seconds.d) * 1000) \div seconds.d
    IN  PadStart(NumToString(hrs), 2) \o <<":">> \o PadStart(NumToString(mins), 2) \o <<":">>
          \o PadStart(NumToString(secs), 2) \o <<",">> \o PadStart(NumToString(ms), 3)

SRTEntry(segment, number) ==
    NumToString(number) \o <<"\n">>
      \o formatTime(segment.startTime) \o <<" ", "-", "-", ">", " ">>
      \o formatTime(segment.endTime) \o <<"\n">>
      \o segment.content \o <<"\n">>

\* a variant that joins the entries without a separator
RECURSIVE JoinEntries_NoBlank(_, _)
JoinEntries_NoBlank(segments, k) ==
    IF k > Len(segments) THEN <<>>
    ELSE SRTEntry(segments[k], k) \o JoinEntries_NoBlank(segments, k + 1)

\* chunks.map(...).join('\n')
RECURSIVE JoinEntries(_, _)
JoinEntries(segments, k) ==
    IF k > Len(segments) THEN <<>>
    ELSE SRTEntry(segments[k], k)
           \o (IF k < Len(segments) THEN <<"\n">> ELSE <<>>)
           \o JoinEntries(segments, k + 1)

generateSRT(segments) == JoinEntries(segments, 1)

(***************************************************************************)
(* SubtitleOverlay.parseSRT and parseTimestamp (the overlay's parser).     *)
(* The pattern is                                                          *)
(*   (\d+)\s*\n(TS)\s*-->\s*(TS)\s*\n([\s\S]*?)(?=\n\n|\n*$)               *)
(* with TS = \d{2}:\d{2}:\d{2}[,\.]\d{3}, matched repeatedly (flag g)      *)
(* from the end of the previous match.  A greedy \s* followed by \n and a  *)
(* digit can only end at the end of the whitespace run, on a newline; the  *)
(* \s*\n before the lazy content ends at the last newline of the run,      *)
(* since the content and its lookahead match from any position.            *)
(***************************************************************************)
Digits == {"0", "1", "2", "3", "4", "5", "6", "7", "8", "9"}

IsDigit(c) == c \in Digits

DigitValue(c) == CHOOSE k \in 0..9 : Digit(k) = c

\* the position after the longest run of digits from i
RECURSIVE DigitRunEnd(_, _)
DigitRunEnd(s, i) ==
    IF i <= Len(s) /\ IsDigit(s[i]) THEN DigitRunEnd(s, i + 1) ELSE i

\* the position after the longest run of whitespace from i
RECURSIVE SpaceRunEnd(_, _)
SpaceRunEnd(s, i) ==
    IF i <= Len(s) /\ IsSpace(s[i]) THEN SpaceRunEnd(s, i + 1) ELSE i

\* \d{2}:\d{2}:\d{2}[,\.]\d{3} at position i
TimestampAt(s, i) ==
    /\ i + 11 <= Len(s)
    /\ \A k \in {0, 1, 3, 4, 6, 7, 9, 10, 11} : IsDigit(s[i + k])
    /\ s[i + 2] = ":"
    /\ s[i + 5] = ":"
    /\ s[i + 8] \in {",", "."}

\* the literal --> at position i
ArrowAt(s, i) ==
    /\ i + 2 <= Len(s)
    /\ s[i] = "-"
    /\ s[i + 1] = "-"
    /\ s[i + 2] = ">"

\* the position after the last newline in from..(to - 1), 0 if there is none
RECURSIVE AfterLastNewline(_, _, _)
AfterLastNewline(s, from, to) ==
    IF to <= from THEN 0
    ELSE IF s[to - 1] = "\n" THEN to
    ELSE AfterLastNewline(s, from, to - 1)

\* \n*$ at position i
RECURSIVE OnlyNewlines(_, _)
OnlyNewlines(s, i) ==
    i > Len(s) \/ (s[i] = "\n" /\ OnlyNewlines(s, i + 1))

\* the lookahead (?=\n\n|\n*$) at position i
ContentStops(s, i) ==
    \/ (i + 1 <= Len(s) /\ s[i] = "\n" /\ s[i + 1] = "\n")
    \/ OnlyNewlines(s, i)

\* the end of the lazy group ([\s\S]*?) that starts at i
RECURSIVE ContentEnd(_, _)
ContentEnd(s, i) == IF ContentStops(s, i) THEN i ELSE ContentEnd(s, i + 1)

CueNoMatch == [found |-> FALSE]

\* the groups of a match: the two timestamps and the content, and its end
CueMatchContent(s, ts1, ts2, from, to) ==
    [found |-> TRUE,
     start |-> SubSeq(s, ts1, ts1 + 11),
     end |-> SubSeq(s, ts2, ts2 + 11),
     text |-> SubSeq(s, from, to - 1),
     next |-> to]

\* \s*\n after the second timestamp, then the content
CueMatchTail(s, ts1, ts2, from) ==
    IF from = 0 THEN CueNoMatch
    ELSE CueMatchContent(s, ts1, ts2, from, ContentEnd(s, from))

\* \s* and the second timestamp
CueMatchSecond(s, ts1, ts2) ==
    IF ~TimestampAt(s, ts2) THEN CueNoMatch
    ELSE CueMatchTail(s, ts1, ts2,
                   AfterLastNewline(s, ts2 + 12, SpaceRunEnd(s, ts2 + 12)))

\* \s*--> after the first timestamp
CueMatchArrow(s, ts1, arrow) ==
    IF ~ArrowAt(s, arrow) THEN CueNoMatch
    ELSE CueMatchSecond(s, ts1, SpaceRunEnd(s, arrow + 3))

\* \s*\n and the first timestamp: the index's digits end at digitsEnd
CueMatchFirst(s, digitsEnd, ts1) ==
    IF ts1 = digitsEnd \/ s[ts1 - 1] # "\n" \/ ~TimestampAt(s, ts1) THEN CueNoMatch
    ELSE CueMatchArrow(s, ts1, SpaceRunEnd(s, ts1 + 12))

\* the pattern at position i
CueMatchAt(s, i) ==
    IF ~IsDigit(s[i]) THEN CueNoMatch
    ELSE CueMatchFirst(s, DigitRunEnd(s, i), SpaceRunEnd(s, DigitRunEnd(s, i)))

\* parseInt of two digits
TwoDigits(s, i) == DigitValue(s[i]) * 10 + DigitValue(s[i + 1])

\* hours * 3600 + minutes * 60 + parseFloat("ss.mmm")
parseTimestamp(ts) ==
    Rat((TwoDigits(ts, 1) * 3600 + TwoDigits(ts, 4) * 60 + TwoDigits(ts, 7)) * 1000
            + DigitValue(ts[10]) * 100 + TwoDigits(ts, 11),
        1000)

\* a variant that keeps the line breaks of a cue
ReplaceNewlines_Keep(s) ==
    s

\* String.prototype.replace(/\n/g, ' ')
ReplaceNewlines(s) == [i \in 1..Len(s) |-> IF s[i] = "\n" THEN " " ELSE s[i]]

Cue(m) ==
    [start |-> parseTimestamp(m.start),
     end |-> parseTimestamp(m.end),
     text |-> ReplaceNewlines(Trim(m.text))]

\* the while loop over srtPattern.exec
RECURSIVE ExecLoop(_, _, _)
ExecStep(s, i, acc, m) ==
    IF m.found THEN ExecLoop(s, m.next, Append(acc, Cue(m)))
    ELSE ExecLoop(s, i + 1, acc)

ExecLoop(s, i, acc) ==
    IF i > Len(s) THEN acc ELSE ExecStep(s, i, acc, CueMatchAt(s, i))

\* String.prototype.split('\n')
RECURSIVE SplitLines(_, _, _)
SplitLines(s, i, line) ==
    IF i > Len(s) THEN <<line>>
    ELSE IF s[i] = "\n" THEN <<line>> \o SplitLines(s, i + 1, <<>>)
    ELSE SplitLines(s, i + 1, Append(line, s[i]))

\* filter(line => line.trim())
RECURSIVE NonBlankLines(_)
NonBlankLines(lines) ==
    IF lines = <<>> THEN <<>>
    ELSE (IF Trim(Head(lines)) # <<>> THEN <<Head(lines)>> ELSE <<>>)
           \o NonBlankLines(Tail(lines))

\* the cues of the fallback: the lines spread evenly over the duration
LineCues(lines, duration) ==
    [k \in 1..Len(lines) |->
        [start |-> Rat((k - 1) * duration, Len(lines)),
         end |-> Rat(k * duration, Len(lines)),
         text |-> Trim(lines[k])]]

\* this.video?.duration || 300: videoDuration 0 stands for every falsy value
FallbackDuration(videoDuration) == IF videoDuration # 0 THEN videoDuration ELSE 300

ParseResult(s, matched, videoDuration) ==
    IF Len(matched) # 0 THEN matched
    ELSE LineCues(NonBlankLines(SplitLines(s, 1, <<>>)),
                  FallbackDuration(videoDuration))

parseSRT(s, videoDuration) == ParseResult(s, ExecLoop(s, 1, <<>>), videoDuration)

(***************************************************************************)
(* SubtitleOverlay: the fields that the sync loop reads and writes, as a   *)
(* record.  video and textElement say whether the element has been found   *)
(* or created; shown is <<>> while the text element is faded out and       *)
(* <<text>> while it shows a cue; animationFrame is 0 for null.  scheduled *)
(* and nextId are the browser's: the ids of the requested animation frames *)
(* that have neither run nor been cancelled, and the id the next           *)
(* requestAnimationFrame call returns.  listeners counts the bindEvents    *)
(* calls made on the video element.  Fonts, positions and the native       *)
(* captions' display are left out.                                         *)
(***************************************************************************)
NewOverlay ==
    [video |-> FALSE, textElement |-> FALSE, cues |-> <<>>, isActive |-> FALSE,
     animationFrame |-> 0, shown |-> <<>>, scheduled |-> {}, nextId |-> 1,
     listeners |-> 0]

\* cue => currentTime >= cue.start && currentTime <= cue.end
Covers(cue, currentTime) ==
    /\ ~RatLess(Rat(currentTime, 1), cue.start)
    /\ ~RatLess(cue.end, Rat(currentTime, 1))

\* Array.prototype.find
RECURSIVE FindCue(_, _, _)
FindCue(cs, k, currentTime) ==
    IF k > Len(cs) THEN <<>>
    ELSE IF Covers(cs[k], currentTime) THEN <<cs[k].text>>
    ELSE FindCue(cs, k + 1, currentTime)

updateSubtitle(o, currentTime) ==
    IF ~o.video \/ ~o.textElement \/ ~o.isActive THEN o
    ELSE [o EXCEPT !.shown = FindCue(o.cues, 1, currentTime)]

\* requestAnimationFrame(sync) and the assignment of its id
RequestFrame(o) ==
    [o EXCEPT !.animationFrame = o.nextId,
              !.scheduled = @ \cup {o.nextId},
              !.nextId = @ + 1]

\* the closure sync: updateSubtitle, then the next frame is requested
sync(o, currentTime) == RequestFrame(updateSubtitle(o, currentTime))

startSync(o, currentTime) ==
    IF ~o.isActive \/ o.animationFrame # 0 THEN o ELSE sync(o, currentTime)

\* a variant that forgets the frame without cancelling it
stopSync_NoCancel(o) ==
    [o EXCEPT !.animationFrame = 0]

stopSync(o) ==
    IF o.animationFrame # 0
    THEN [o EXCEPT !.scheduled = @ \ {o.animationFrame}, !.animationFrame = 0]
    ELSE o

\* isActive = false and cues = [] after stopSync
Destroyed(o) == [o EXCEPT !.isActive = FALSE, !.cues = <<>>]

destroy(o) == Destroyed(stopSync(o))

\* createOverlay: destroy, then the elements are created if the video
\* container is there
createOverlay(o, hasContainer) ==
    [destroy(o) EXCEPT !.textElement = @ \/ hasContainer,
                       !.shown = IF hasContainer THEN <<>> ELSE @]

\* bindEvents: one more set of listeners on the video element
bindEvents(o) == [o EXCEPT !.listeners = @ + 1]

\* init: without a video element nothing but the field is set
init(o, hasVideo, hasContainer) ==
    IF ~hasVideo THEN [o EXCEPT !.video = FALSE]
    ELSE bindEvents(createOverlay([o EXCEPT !.video = TRUE], hasContainer))

\* cues and isActive are set before startSync
Applied(o, subtitles) ==
    [o EXCEPT !.cues = parseSRT(subtitles, 0), !.isActive = TRUE]

apply(o, subtitles, currentTime) == startSync(Applied(o, subtitles), currentTime)

Toggled(o) == [o EXCEPT !.isActive = ~@]

toggle(o, currentTime) ==
    IF ~o.isActive THEN startSync(Toggled(o), currentTime) ELSE stopSync(Toggled(o))

\* one listener's reaction to a video event
Listener(o, event, currentTime) ==
    CASE event \in {"play", "playing"} -> startSync(o, currentTime)
      [] event \in {"pause", "ended"} -> stopSync(o)
      [] OTHER -> updateSubtitle(o, currentTime)

\* the event is dispatched to the n sets of listeners in turn
RECURSIVE Dispatch(_, _, _, _)
Dispatch(o, event, currentTime, n) ==
    IF n = 0 THEN o
    ELSE Dispatch(Listener(o, event, currentTime), event, currentTime, n - 1)

\* the browser runs the requested frame id: it is no longer scheduled
FrameRun(o, id) == [o EXCEPT !.scheduled = @ \ {id}]

(***************************************************************************)
(* The translation provider, as callOpenAI sees it.  An answer is one of   *)
(*   ok       200 with the translation of the submitted content            *)
(*   empty    200 with a whitespace-only content                           *)
(*   rate     status 429                                                   *)
(*   size     an error status other than 429 with error.code =             *)
(*            "context_length_exceeded"                                    *)
(*   invalid  an error status other than 429 whose message contains        *)
(*            "Invalid API" (or "TOKEN_LIMIT": the catch block treats the  *)
(*            two alike)                                                   *)
(*   other    any other failure: another error status and message, a       *)
(*            network error thrown by fetch, an unreadable body            *)
(***************************************************************************)
Outcomes == {"ok", "empty", "rate", "size", "invalid", "other"}

Upper(c) ==
    CASE c = "a" -> "A" [] c = "b" -> "B" [] c = "c" -> "C" [] OTHER -> c

\* what the provider makes of a content: letter for letter, punctuation kept
Translate(content) == [i \in 1..Len(content) |-> Upper(content[i])]

\* data.choices[0].message.content of a 200 answer
ResponseBody(outcome, content) ==
    IF outcome = "ok" THEN <<" ">> \o Translate(content) ELSE <<" ">>

(***************************************************************************)
(* AIPipeline.callOpenAI: what one answer leads to, at a given retryCount. *)
(*   return           the content is returned                              *)
(*   retry            sleep(delay), retriedChunks++, callOpenAI(.., +1)    *)
(*   throwTokenLimit  Error("TOKEN_LIMIT_EXCEEDED") leaves the call        *)
(*   throw            another error leaves the call                        *)
(* A 429 is retried by the first branch while retryCount < maxRetries; at  *)
(* maxRetries it falls through to throw new Error(errorMessage), which the *)
(* catch block rethrows.  An error thrown inside try is retried by the     *)
(* catch block unless its message contains TOKEN_LIMIT or Invalid API.     *)
(***************************************************************************)
maxRetries == 3

baseDelay == 1000

\* a variant that retries a 429 at retryCount = maxRetries as well
callOpenAI_RetryAtLimit(outcome, retryCount) ==
    CASE outcome \in {"ok", "empty"} -> "return"
      [] outcome = "rate" -> IF retryCount <= maxRetries THEN "retry" ELSE "throw"
      [] outcome = "size" -> "throwTokenLimit"
      [] outcome = "invalid" -> "throw"
      [] OTHER -> IF retryCount < maxRetries THEN "retry" ELSE "throw"

\* a variant whose catch block rethrows every error without a retry
callOpenAI_NoErrorRetry(outcome, retryCount) ==
    CASE outcome \in {"ok", "empty"} -> "return"
      [] outcome = "rate" -> IF retryCount < maxRetries THEN "retry" ELSE "throw"
      [] outcome = "size" -> "throwTokenLimit"
      [] outcome = "invalid" -> "throw"
      [] OTHER -> "throw"

callOpenAI(outcome, retryCount) ==
    CASE outcome \in {"ok", "empty"} -> "return"
      [] outcome = "rate" -> IF retryCount < maxRetries THEN "retry" ELSE "throw"
      [] outcome = "size" -> "throwTokenLimit"
      [] outcome = "invalid" -> "throw"
      [] OTHER -> IF retryCount < maxRetries THEN "retry" ELSE "throw"

\* baseDelay * Math.pow(2, retryCount)
BackoffDelay(retryCount) == baseDelay * 2^retryCount

(***************************************************************************)
(* AIPipeline.translateChunk.                                              *)
(***************************************************************************)
\* a variant whose catch block throws the error on
translateChunkCatch_Rethrow(end) ==
    IF end = "throwTokenLimit" THEN "split" ELSE "rethrow"

\* a variant whose catch block re-chunks on every error
translateChunkCatch_SplitAlways(end) ==
    "split"

\* the catch block: re-chunk on TOKEN_LIMIT_EXCEEDED, else return a failure;
\* no error is thrown on ("rethrow" would reject translateChunks, which has
\* no try/catch of its own)
translateChunkCatch(end) ==
    IF end = "throwTokenLimit" THEN "split" ELSE "fail"

\* rechunkOnError's default factor
rechunkFactor == 2

\* the catch block's loop state over smallerChunks: k is the position of the
\* sub-chunk being translated, results the translations pushed so far;
\* subres lists what each finished sub-chunk's translateChunk returned
NewFrame(content) ==
    [content |-> content,
     subs |-> rechunkOnError(content, rechunkFactor),
     k |-> 1,
     subres |-> <<>>,
     results |-> <<>>,
     fold |-> 0]

\* A frame equal to the one below it (a content that re-chunks to itself
\* and meets the size limit again) is folded into it: the two are
\* indistinguishable and return the same result.  fold is the parity of the
\* number of frames folded, so the run stays finite in its states while
\* each further request remains a step of its own.
Push(stk, f) ==
    IF stk # <<>> /\ [stk[Len(stk)] EXCEPT !.fold = 0] = f
    THEN [stk EXCEPT ![Len(stk)].fold = 1 - @]
    ELSE Append(stk, f)

\* a variant that pushes every sub-chunk's translation, failed or not
AccumulateResult_All(results, res) == Append(results, res.translation)

\* if (result.success && result.translation) results.push(result.translation)
AccumulateResult(results, res) ==
    IF res.success /\ res.translation # <<>>
    THEN Append(results, res.translation)
    ELSE results

\* after the loop: success with results.join(" "), or the failure return
FrameResult(results) ==
    IF Len(results) > 0
    THEN [success |-> TRUE, translation |-> JoinSpace(results)]
    ELSE [success |-> FALSE, translation |-> <<>>]

\* the frame takes its sub-chunk's result and moves to the next sub-chunk
Advance(f, res) ==
    [f EXCEPT !.subres = Append(@, res),
              !.results = AccumulateResult(@, res),
              !.k = @ + 1]

\* A translateChunk invocation returned res to the frames stk awaiting it:
\* the innermost frame takes it and either goes on to its next sub-chunk
\* (done = FALSE, content the next content to translate) or returns in
\* turn; done = TRUE when the input chunk's own translateChunk has returned
\* res.  split holds the outermost frame that returned on the way.
RECURSIVE Unwind(_, _, _)
\* g is the innermost frame of stk, advanced
UnwindInto(stk, g, res, split) ==
    IF g.k <= Len(g.subs)
    THEN [stack |-> [stk EXCEPT ![Len(stk)] = g],
          done |-> FALSE,
          res |-> res,
          content |-> g.subs[g.k].content,
          split |-> split]
    ELSE Unwind(SubSeq(stk, 1, Len(stk) - 1),
                FrameResult(g.results),
                <<[subs |-> g.subs,
                   subres |-> g.subres,
                   result |-> FrameResult(g.results)]>>)

Unwind(stk, res, split) ==
    IF stk = <<>>
    THEN [stack |-> stk, done |-> TRUE, res |-> res, content |-> <<>>, split |-> split]
    ELSE UnwindInto(stk, Advance(stk[Len(stk)], res), res, split)

(***************************************************************************)
(* AIPipeline.translateChunks.                                             *)
(***************************************************************************)
FailurePrefix ==
    <<"[", "T", "r", "a", "n", "s", "l", "a", "t", "i", "o", "n", " ", "f", "a", "i", "l", "e", "d", ":", " ">>

\* a variant that echoes the whole content
Placeholder_Whole(content) ==
    FailurePrefix \o content \o <<".", ".", ".", "]">>

\* `[Translation failed: ${chunk.content.substring(0, 100)}...]`
Placeholder(content) ==
    FailurePrefix \o Substring0(content, 100) \o <<".", ".", ".", "]">>

\* if (result.success && result.translation)
Succeeded(res) == res.success /\ res.translation # <<>>

\* the entry pushed on translations for an input chunk
TranslationEntry(chunk, res) ==
    [content |-> IF Succeeded(res) THEN res.translation ELSE Placeholder(chunk.content),
     index |-> chunk.index,
     duration |-> chunk.estimatedDuration]

\* translations.sort((a, b) => a.index - b.index): a stable sort
RECURSIVE InsertByIndex(_, _)
InsertByIndex(sorted, e) ==
    IF sorted = <<>> THEN <<e>>
    ELSE IF sorted[Len(sorted)].index <= e.index THEN Append(sorted, e)
    ELSE Append(InsertByIndex(SubSeq(sorted, 1, Len(sorted) - 1), e), sorted[Len(sorted)])

RECURSIVE SortByIndex(_)
SortByIndex(entries) ==
    IF entries = <<>> THEN <<>>
    ELSE InsertByIndex(SortByIndex(SubSeq(entries, 1, Len(entries) - 1)),
                       entries[Len(entries)])

\* a variant that leaves every chunk's segments at the chunk's own clock
Shifted_Unshifted(segments, currentTime) == segments

\* timedSegments.push({content, startTime: currentTime + startTime, ...})
Shifted(segments, currentTime) ==
    [j \in 1..Len(segments) |->
        [content |-> segments[j].content,
         startTime |-> RatAdd(Rat(currentTime, 1), segments[j].startTime),
         endTime |-> RatAdd(Rat(currentTime, 1), segments[j].endTime)]]

\* the timestamp loop over sorted[i..], currentTime the running total
RECURSIVE TimedSegments(_, _, _)
TimedSegments(sorted, i, currentTime) ==
    IF i > Len(sorted) THEN <<>>
    ELSE Shifted(splitIntoSRTSegments(sorted[i].content, sorted[i].duration),
                 currentTime)
           \o TimedSegments(sorted, i + 1, currentTime + sorted[i].duration)

\* the string translateChunks returns
FinalSRT(entries) == generateSRT(TimedSegments(SortByIndex(entries), 1, 0))

\* private stats: PipelineStats = {...}
NewStats ==
    [totalChunks |-> 0,
     successfulChunks |-> 0,
     failedChunks |-> 0,
     retriedChunks |-> 0,
     usedWhisper |-> FALSE]

\* this.stats.totalChunks = chunks.length
StatsOnStart(st, cs) == [st EXCEPT !.totalChunks = Len(cs)]

\* a variant that forgets failedChunks++
StatsOnResolved_SuccessOnly(st, ok) ==
    IF ok THEN [st EXCEPT !.successfulChunks = @ + 1] ELSE st

\* this.stats.successfulChunks++ / this.stats.failedChunks++
StatsOnResolved(st, ok) ==
    IF ok THEN [st EXCEPT !.successfulChunks = @ + 1]
    ELSE [st EXCEPT !.failedChunks = @ + 1]

\* this.stats.retriedChunks++
StatsOnRetry(st) == [st EXCEPT !.retriedChunks = @ + 1]

\* a request issued by fetch: the input chunk it works for, the content
\* submitted, callOpenAI's retryCount and the answers its call has had
Request(i, content) ==
    [chunk |-> i, content |-> content, retryCount |-> 0, log |-> <<>>]

\* a variant that starts the calls of all remaining chunks at once
FirstCalls_All(cs, i) == IF i <= Len(cs) THEN i..Len(cs) ELSE {}

\* for (const chunk of chunks) { ... await this.translateChunk(chunk, context) }:
\* on reaching position i the loop issues the call of chunk i alone
FirstCalls(cs, i) == IF i <= Len(cs) THEN {i} ELSE {}

FirstRequests(cs, i) == {Request(j, cs[j].content) : j \in FirstCalls(cs, i)}

(***************************************************************************)
(* Whitespace normalisation: runs collapsed to one space, ends trimmed.    *)
(* The yardstick of the content-preservation claims, not program code.     *)
(***************************************************************************)
RECURSIVE Collapse(_)
Collapse(s) ==
    IF s = <<>> THEN <<>>
    ELSE IF IsSpace(Head(s))
         THEN IF Len(s) > 1 /\ IsSpace(s[2]) THEN Collapse(Tail(s))
              ELSE <<" ">> \o Collapse(Tail(s))
    ELSE <<Head(s)>> \o Collapse(Tail(s))

Normalize(s) == Collapse(Trim(s))

Contents(cs) == [k \in 1..Len(cs) |-> cs[k].content]

(***************************************************************************)
(* State.  The pipeline's variables are indexed by run: a run is one       *)
(* AIPipeline instance and the translateChunks call made on it.            *)
(***************************************************************************)
Runs == {1, 2}

VARIABLES
    text,          \* chunker: the transcript text given
    budget,        \* chunker: the maxTokens given (0: omitted)
    chunked,       \* chunker: <<>> before the call, then <<result>>
    factor,        \* chunker: the factor given to rechunkOnError
    rechunked,     \* chunker: <<>>, then <<result of rechunkOnError>>
    totalDuration, \* chunker: the totalDuration given to splitIntoSRTSegments
    segmented,     \* chunker: <<>>, then <<result of splitIntoSRTSegments>>
    estimated,     \* chunker: <<>>, then <<result of estimateTranscript>>
    timedSegments, \* chunker: the segments given to generateSRT
    srtText,       \* chunker: <<>>, then <<result of generateSRT>>
    cues,          \* overlay: <<>>, then <<result of parseSRT>>
    overlay,       \* overlay: the SubtitleOverlay object, with the animation
                   \* frames the browser has scheduled for it
    request,       \* handler: <<>> (the run has no handler) or <<action>>, the
                   \*          message the handler is answering
    response,      \* handler: <<>> or <<what sendResponse was called with>>
    pc,            \* where the run is: none, ready, running, returned, threw,
                   \*          received (translateChunks and its caller); idle,
                   \*          query, transcript, native, whisper, responded
                   \*          (handler)
    chunks,        \* translateChunks' argument
    pos,           \* the for loop's position in chunks (1-based)
    stats,         \* the PipelineStats objects, by owner
    translations,  \* translateChunks' local array
    stack,         \* the translateChunk invocations inside their catch block
    inflight,      \* fetch requests awaiting their answer
    timers,        \* sleep(delay) calls awaiting their timeout
    returned,      \* <<>> or <<srt>> once translateChunks has returned
    last,          \* history: what the run's latest step did
    soloStats,     \* history: the stats of the same run on an object of its own
    retriedIdx,    \* history: the input chunks that needed a retry
    transcript,    \* handler: <<>> or <<the transcript it has obtained>>
    usedWhisper,   \* handler: <<>> (the variant has no such local) or
                   \*          <<its local usedWhisper>>
    received       \* caller: the values of the stats of each result it has
                   \*          been handed by translateChunks, as it read them
                   \*          on receipt

chunkVars == <<text, budget, chunked, factor, rechunked, totalDuration, segmented,
               estimated, timedSegments, srtText, cues, overlay>>

callerVars == <<transcript, usedWhisper, received>>

pipeVars == <<request, response, pc, chunks, pos, stats, translations, stack,
              inflight, timers, returned, last, soloStats, retriedIdx,
              transcript, usedWhisper, received>>

vars == <<text, budget, chunked, factor, rechunked, totalDuration, segmented,
          estimated, timedSegments, srtText, cues, overlay, request, response, pc, chunks, pos, stats,
          translations, stack, inflight, timers, returned, last, soloStats,
          retriedIdx, transcript, usedWhisper, received>>

\* a variant with one stats object for all pipelines (a static field)
StatsOwner_Shared(p) == 1

\* the object this.stats of run p's pipeline: an instance field
StatsOwner(p) == p

NoEvent == [op |-> "none", chain |-> <<>>, frame |-> <<>>, resolved |-> <<>>]

\* estimateTranscript, generateSRT and parseSRT are not being followed
FormatterIdle ==
    /\ estimated = <<>>
    /\ timedSegments = <<>>
    /\ srtText = <<>>
    /\ cues = <<>>
    /\ overlay = NewOverlay

\* no chunker call is being followed
ChunkerIdle ==
    /\ text = <<>>
    /\ budget = 0
    /\ chunked = <<>>
    /\ factor = 0
    /\ rechunked = <<>>
    /\ totalDuration = 0
    /\ segmented = <<>>
    /\ FormatterIdle

\* no handler has obtained anything, no caller has been handed a result
CallerIdle ==
    /\ transcript = [p \in Runs |-> <<>>]
    /\ usedWhisper = [p \in Runs |-> <<>>]
    /\ received = [p \in Runs |-> <<>>]

PipelineIdle ==
    /\ CallerIdle
    /\ request = [p \in Runs |-> <<>>]
    /\ response = [p \in Runs |-> <<>>]
    /\ pc = [p \in Runs |-> "none"]
    /\ chunks = [p \in Runs |-> <<>>]
    /\ pos = [p \in Runs |-> 0]
    /\ stats = [p \in Runs |-> NewStats]
    /\ translations = [p \in Runs |-> <<>>]
    /\ stack = [p \in Runs |-> <<>>]
    /\ inflight = [p \in Runs |-> {}]
    /\ timers = [p \in Runs |-> {}]
    /\ returned = [p \in Runs |-> <<>>]
    /\ last = [p \in Runs |-> NoEvent]
    /\ soloStats = [p \in Runs |-> NewStats]
    /\ retriedIdx = [p \in Runs |-> {}]

(***************************************************************************)
(* The chunker applied to every text up to MaxLen and a few budgets.       *)
(***************************************************************************)
RECURSIVE TextsOfLen(_)
TextsOfLen(n) ==
    IF n = 0 THEN {<<>>}
    ELSE {Append(s, c) : s \in TextsOfLen(n - 1), c \in Chars}

Texts == UNION {TextsOfLen(n) : n \in 0..MaxLen}

Budgets == {0, 1, 2}

InitChunk ==
    /\ text \in Texts
    /\ budget \in Budgets
    /\ chunked = <<>>
    /\ factor = 0
    /\ rechunked = <<>>
    /\ totalDuration = 0
    /\ segmented = <<>>
    /\ FormatterIdle
    /\ PipelineIdle

ChunkTranscript ==
    /\ chunked = <<>>
    /\ chunked' = <<chunkTranscript(text, budget)>>
    /\ UNCHANGED <<text, budget, factor, rechunked, totalDuration, segmented>>
    /\ UNCHANGED <<estimated, timedSegments, srtText, cues, overlay>>
    /\ UNCHANGED pipeVars

NextChunk == ChunkTranscript

SpecChunk == InitChunk /\ [][NextChunk]_vars

(***************************************************************************)
(* estimateTranscript applied to texts around every half minute of speech. *)
(***************************************************************************)
EstimateLengths ==
    {0, 1} \cup {k * 300 + d : k \in 1..EstimateSteps, d \in {-1, 0, 1}}

InitEstimate ==
    /\ text \in {[i \in 1..n |-> "a"] : n \in EstimateLengths}
    /\ budget = 0
    /\ chunked = <<>>
    /\ factor = 0
    /\ rechunked = <<>>
    /\ totalDuration = 0
    /\ segmented = <<>>
    /\ FormatterIdle
    /\ PipelineIdle

EstimateTranscript ==
    /\ estimated = <<>>
    /\ estimated' = <<estimateTranscript(text)>>
    /\ UNCHANGED <<text, budget, chunked, factor, rechunked, totalDuration, segmented>>
    /\ UNCHANGED <<timedSegments, srtText, cues, overlay>>
    /\ UNCHANGED pipeVars

NextEstimate == EstimateTranscript

SpecEstimate == InitEstimate /\ [][NextEstimate]_vars

(***************************************************************************)
(* generateSRT applied to short lists of segments, and the overlay's       *)
(* parseSRT applied to its output.  The contents include line breaks,      *)
(* outer whitespace and a blank line; the times include fractions that are *)
(* no multiple of a millisecond and times of 100 hours and more.           *)
(***************************************************************************)
MaxSegments == 2

SRTContents ==
    {<<"a">>, <<"a", "\n", "b">>, <<" ", "a">>, <<" ">>, <<"a", "\n", "\n", "b">>}

SRTSpans ==
    {<<Rat(0, 1), Rat(59999, 1000)>>,
     <<Rat(1, 3), Rat(617, 500)>>,
     <<Rat(7323, 2), Rat(3662, 1)>>,
     <<Rat(359999, 1), Rat(360000, 1)>>,
     <<Rat(360000, 1), Rat(360001, 1)>>}

SRTSegments ==
    {[content |-> c, startTime |-> sp[1], endTime |-> sp[2]] :
        c \in SRTContents, sp \in SRTSpans}

\* times around the unit boundaries, in thirds and in half milliseconds
FormatTimes ==
    {Rat(n, d) : n \in {0, 1, 59, 61, 1999, 3599, 3601, 359999, 360001},
                 d \in {1, 3, 2000}}

SegmentLists ==
    UNION {[1..n -> SRTSegments] : n \in 0..MaxSegments}
        \cup {<<[content |-> <<"a">>, startTime |-> t, endTime |-> RatAdd(t, Rat(1, 1))]>> :
                 t \in FormatTimes}

\* video.duration as the overlay sees it; 0 stands for no video
VideoDurations == {0, 60}

InitSRT ==
    /\ timedSegments \in SegmentLists
    /\ srtText = <<>>
    /\ cues = <<>>
    /\ overlay = NewOverlay
    /\ estimated = <<>>
    /\ text = <<>>
    /\ budget = 0
    /\ chunked = <<>>
    /\ factor = 0
    /\ rechunked = <<>>
    /\ totalDuration = 0
    /\ segmented = <<>>
    /\ PipelineIdle

GenerateSRT ==
    /\ srtText = <<>>
    /\ srtText' = <<generateSRT(timedSegments)>>
    /\ UNCHANGED <<text, budget, chunked, factor, rechunked, totalDuration, segmented>>
    /\ UNCHANGED <<estimated, timedSegments, cues, overlay>>
    /\ UNCHANGED pipeVars

ParseSRT(videoDuration) ==
    /\ srtText # <<>>
    /\ cues = <<>>
    /\ cues' = <<parseSRT(srtText[1], videoDuration)>>
    /\ UNCHANGED <<text, budget, chunked, factor, rechunked, totalDuration, segmented>>
    /\ UNCHANGED <<estimated, timedSegments, srtText, overlay>>
    /\ UNCHANGED pipeVars

NextSRT ==
    \/ GenerateSRT
    \/ \E d \in VideoDurations : ParseSRT(d)

SpecSRT == InitSRT /\ [][NextSRT]_vars

(***************************************************************************)
(* The overlay under every order of its operations, the video's events and *)
(* the animation frames.  Every handler runs to completion.                *)
(***************************************************************************)
MaxFrames == 4

MaxListeners == 2

\* video.currentTime when a handler reads it
VideoTimes == {0, 2}

VideoEvents == {"play", "playing", "pause", "ended", "seeked"}

OverlaySubtitles ==
    {generateSRT(<<[content |-> <<"a">>, startTime |-> Rat(0, 1), endTime |-> Rat(1, 1)]>>)}

\* the model's bounds on the frames requested and the listeners bound
WithinBounds(o) == o.nextId <= MaxFrames + 1 /\ o.listeners <= MaxListeners

OverlayInit(hasVideo, hasContainer) ==
    /\ WithinBounds(init(overlay, hasVideo, hasContainer))
    /\ overlay' = init(overlay, hasVideo, hasContainer)
    /\ UNCHANGED <<text, budget, chunked, factor, rechunked, totalDuration, segmented>>
    /\ UNCHANGED <<estimated, timedSegments, srtText, cues>>
    /\ UNCHANGED pipeVars

OverlayApply(subtitles, currentTime) ==
    /\ WithinBounds(apply(overlay, subtitles, currentTime))
    /\ overlay' = apply(overlay, subtitles, currentTime)
    /\ UNCHANGED <<text, budget, chunked, factor, rechunked, totalDuration, segmented>>
    /\ UNCHANGED <<estimated, timedSegments, srtText, cues>>
    /\ UNCHANGED pipeVars

OverlayToggle(currentTime) ==
    /\ WithinBounds(toggle(overlay, currentTime))
    /\ overlay' = toggle(overlay, currentTime)
    /\ UNCHANGED <<text, budget, chunked, factor, rechunked, totalDuration, segmented>>
    /\ UNCHANGED <<estimated, timedSegments, srtText, cues>>
    /\ UNCHANGED pipeVars

OverlayDestroy ==
    /\ WithinBounds(destroy(overlay))
    /\ overlay' = destroy(overlay)
    /\ UNCHANGED <<text, budget, chunked, factor, rechunked, totalDuration, segmented>>
    /\ UNCHANGED <<estimated, timedSegments, srtText, cues>>
    /\ UNCHANGED pipeVars

VideoEvent(event, currentTime) ==
    /\ overlay.listeners > 0
    /\ WithinBounds(Dispatch(overlay, event, currentTime, overlay.listeners))
    /\ overlay' = Dispatch(overlay, event, currentTime, overlay.listeners)
    /\ UNCHANGED <<text, budget, chunked, factor, rechunked, totalDuration, segmented>>
    /\ UNCHANGED <<estimated, timedSegments, srtText, cues>>
    /\ UNCHANGED pipeVars

AnimationFrame(id, currentTime) ==
    /\ id \in overlay.scheduled
    /\ WithinBounds(sync(FrameRun(overlay, id), currentTime))
    /\ overlay' = sync(FrameRun(overlay, id), currentTime)
    /\ UNCHANGED <<text, budget, chunked, factor, rechunked, totalDuration, segmented>>
    /\ UNCHANGED <<estimated, timedSegments, srtText, cues>>
    /\ UNCHANGED pipeVars

InitOverlay == ChunkerIdle /\ PipelineIdle

NextOverlay ==
    \/ \E hasVideo, hasContainer \in BOOLEAN : OverlayInit(hasVideo, hasContainer)
    \/ \E subtitles \in OverlaySubtitles, t \in VideoTimes : OverlayApply(subtitles, t)
    \/ \E t \in VideoTimes : OverlayToggle(t)
    \/ OverlayDestroy
    \/ \E event \in VideoEvents, t \in VideoTimes : VideoEvent(event, t)
    \/ \E id \in 1..MaxFrames, t \in VideoTimes : AnimationFrame(id, t)

SpecOverlay == InitOverlay /\ [][NextOverlay]_vars

(***************************************************************************)
(* rechunkOnError applied to a chunk of every content up to MaxLen, with a *)
(* few factors.                                                            *)
(***************************************************************************)
Factors == {1, 2, 3}

\* the longest run of sentences among the inputs
MaxSentences == 5

\* n sentences "a. " in a row, without the final space
RECURSIVE SentenceRun(_)
SentenceRun(n) ==
    IF n = 1 THEN <<"a", ".">>
    ELSE <<"a", ".", " ">> \o SentenceRun(n - 1)

RechunkTexts == Texts \cup {SentenceRun(n) : n \in 3..MaxSentences}

InitRechunk ==
    /\ text \in RechunkTexts
    /\ factor \in Factors
    /\ rechunked = <<>>
    /\ budget = 0
    /\ chunked = <<>>
    /\ totalDuration = 0
    /\ segmented = <<>>
    /\ FormatterIdle
    /\ PipelineIdle

RechunkOnError ==
    /\ rechunked = <<>>
    /\ rechunked' = <<rechunkOnError(text, factor)>>
    /\ UNCHANGED <<text, budget, chunked, factor, totalDuration, segmented>>
    /\ UNCHANGED <<estimated, timedSegments, srtText, cues, overlay>>
    /\ UNCHANGED pipeVars

NextRechunk == RechunkOnError

SpecRechunk == InitRechunk /\ [][NextRechunk]_vars

(***************************************************************************)
(* splitIntoSRTSegments applied to every text up to MaxLen, with a few     *)
(* durations: positive ones, zero and a negative one.  JavaScript numbers  *)
(* divide by zero without an exception, and the function has no throw.     *)
(***************************************************************************)
Durations == {-1, 0, 1, 7, 10, 12}

InitSplit ==
    /\ text \in RechunkTexts \ {<<>>}
    /\ totalDuration \in Durations
    /\ segmented = <<>>
    /\ budget = 0
    /\ chunked = <<>>
    /\ factor = 0
    /\ rechunked = <<>>
    /\ FormatterIdle
    /\ PipelineIdle

SplitIntoSRTSegments ==
    /\ segmented = <<>>
    /\ segmented' = <<splitIntoSRTSegments(text, totalDuration)>>
    /\ UNCHANGED <<text, budget, chunked, factor, rechunked, totalDuration>>
    /\ UNCHANGED <<estimated, timedSegments, srtText, cues, overlay>>
    /\ UNCHANGED pipeVars

NextSplit == SplitIntoSRTSegments

SpecSplit == InitSplit /\ [][NextSplit]_vars

(***************************************************************************)
(* The pipeline's steps.  JavaScript runs a continuation to its next await *)
(* without interleaving, so a step is: an awaited event arrives, and the   *)
(* code runs until it awaits again or returns.                             *)
(***************************************************************************)
\* translateChunks returns srt (threw: rejects) or awaits again
Settle(p, finished, threw, srt) ==
    /\ returned' = [returned EXCEPT ![p] = IF finished /\ ~threw THEN <<srt>> ELSE @]
    /\ pc' = [pc EXCEPT ![p] =
                 IF threw THEN "threw" ELSE IF finished THEN "returned" ELSE "running"]

\* translateChunks(cs) up to its first await, on a pipeline whose stats are st0
StartTranslate(p, cs, st0, solo0) ==
    /\ chunks' = [chunks EXCEPT ![p] = cs]
    /\ stats' = [stats EXCEPT ![StatsOwner(p)] = StatsOnStart(st0, cs)]
    /\ soloStats' = [soloStats EXCEPT ![p] = StatsOnStart(solo0, cs)]
    /\ translations' = [translations EXCEPT ![p] = <<>>]
    /\ pos' = [pos EXCEPT ![p] = 1]
    /\ inflight' = [inflight EXCEPT ![p] = FirstRequests(cs, 1)]
    /\ last' = [last EXCEPT ![p] = [NoEvent EXCEPT !.op = "start"]]
    /\ Settle(p, cs = <<>>, FALSE, FinalSRT(<<>>))
    /\ UNCHANGED <<stack, timers, retriedIdx>>

\* a caller invokes translateChunks on a pipeline it constructed
TranslateChunks(p) ==
    /\ pc[p] = "ready"
    /\ StartTranslate(p, chunks[p], stats[StatsOwner(p)], soloStats[p])
    /\ UNCHANGED <<request, response>>
    /\ UNCHANGED callerVars
    /\ UNCHANGED chunkVars

\* what a step leaves of the run's own state
Local(infl, tmrs, stk, ps, trs, threw, ev) ==
    [inflight |-> infl, timers |-> tmrs, stack |-> stk, pos |-> ps,
     translations |-> trs, threw |-> threw, last |-> ev]

Event(op, chain, frame, resolved) ==
    [op |-> op, chain |-> chain, frame |-> frame, resolved |-> resolved]

\* callOpenAI awaits sleep(delay) before its retry
OnRetry(req, log, stk, ps, trs) ==
    Local({},
          {[chunk |-> req.chunk, content |-> req.content,
            retryCount |-> req.retryCount, log |-> log,
            delay |-> BackoffDelay(req.retryCount)]},
          stk, ps, trs, FALSE, Event("retry", <<>>, <<>>, <<>>))

\* the catch block re-chunks and translates the first sub-chunk
OnSplit(req, chain, frame, stk, ps, trs) ==
    Local({Request(req.chunk, frame.subs[1].content)}, {},
          Push(stk, frame), ps, trs, FALSE, Event("split", chain, <<>>, <<>>))

\* a translateChunk invocation has returned, u = Unwind(...) says to whom:
\* to a frame, which translates its next sub-chunk, or to translateChunks'
\* loop, which pushes the chunk's entry and goes on to the next chunk
OnResult(req, chain, u, cs, ps, trs) ==
    IF ~u.done
    THEN Local({Request(req.chunk, u.content)}, {}, u.stack, ps, trs, FALSE,
               Event("sub", chain, u.split, <<>>))
    ELSE Local(FirstRequests(cs, ps + 1), {}, u.stack, ps + 1,
               Append(trs, TranslationEntry(cs[ps], u.res)), FALSE,
               Event("resolved", chain, u.split, <<Succeeded(u.res)>>))

\* the call's chain of requests has ended with end
OnEnd(req, o, end, handling, chain, stk, cs, ps, trs) ==
    IF handling = "rethrow"
    THEN Local({}, {}, stk, ps, trs, TRUE, Event("rethrow", chain, <<>>, <<>>))
    ELSE IF handling = "split"
    THEN OnSplit(req, chain, NewFrame(req.content), stk, ps, trs)
    ELSE IF handling = "fail"
    THEN OnResult(req, chain,
                  Unwind(stk, [success |-> FALSE, translation |-> <<>>], <<>>),
                  cs, ps, trs)
    ELSE OnResult(req, chain,
                  Unwind(stk, [success |-> TRUE,
                               translation |-> Trim(ResponseBody(o, req.content))],
                         <<>>),
                  cs, ps, trs)

OnAnswer(req, o, end, log, stk, cs, ps, trs) ==
    IF end = "retry" THEN OnRetry(req, log, stk, ps, trs)
    ELSE OnEnd(req, o, end,
               IF end = "return" THEN "result" ELSE translateChunkCatch(end),
               <<[log |-> log, end |-> end]>>,
               stk, cs, ps, trs)

\* What the answer o to request req leads to, up to the next await, given
\* the frames stk, the input chunks cs, the loop position ps and the
\* translations trs pushed so far.
OnResponse(req, o, stk, cs, ps, trs) ==
    OnAnswer(req, o, callOpenAI(o, req.retryCount), Append(req.log, o),
             stk, cs, ps, trs)

\* the stats after a step whose event is ev
StatsAfter(st, ev) ==
    IF ev.resolved # <<>> THEN StatsOnResolved(st, ev.resolved[1]) ELSE st

\* the step n of run p, answering req, takes effect
Commit(p, req, n) ==
    /\ inflight' = [inflight EXCEPT ![p] = (@ \ {req}) \cup n.inflight]
    /\ timers' = [timers EXCEPT ![p] = @ \cup n.timers]
    /\ stack' = [stack EXCEPT ![p] = n.stack]
    /\ pos' = [pos EXCEPT ![p] = n.pos]
    /\ translations' = [translations EXCEPT ![p] = n.translations]
    /\ last' = [last EXCEPT ![p] = n.last]
    /\ stats' = [stats EXCEPT ![StatsOwner(p)] = StatsAfter(@, n.last)]
    /\ soloStats' = [soloStats EXCEPT ![p] = StatsAfter(@, n.last)]
    /\ Settle(p, n.pos > Len(chunks[p]), n.threw, FinalSRT(n.translations))

\* the retries made or awaited by the runs S
RECURSIVE Retried(_)
Retried(S) ==
    IF S = {} THEN 0
    ELSE LET p == CHOOSE q \in S : TRUE
         IN  soloStats[p].retriedChunks + Cardinality(timers[p]) + Retried(S \ {p})

\* the model's bound on retries: a handler's run shares the state space with
\* the other handler's
RetryBound(p) == IF request[p] = <<>> THEN MaxRetried ELSE MaxConcRetried

\* the provider's answer o to a request of run p arrives
FetchResponds(p, o) ==
    /\ pc[p] = "running"
    /\ \E req \in inflight[p] :
         /\ callOpenAI(o, req.retryCount) = "retry" => Retried(Runs) < RetryBound(p)
         /\ \E n \in {OnResponse(req, o, stack[p], chunks[p], pos[p], translations[p])} :
                Commit(p, req, n)
    /\ UNCHANGED <<request, response, chunks, retriedIdx>>
    /\ UNCHANGED callerVars
    /\ UNCHANGED chunkVars

\* a backoff delay of run p elapses: retriedChunks++ and the request again
SleepDone(p) ==
    /\ pc[p] = "running"
    /\ \E t \in timers[p] :
         /\ timers' = [timers EXCEPT ![p] = @ \ {t}]
         /\ inflight' = [inflight EXCEPT ![p] =
                @ \cup {[chunk |-> t.chunk, content |-> t.content,
                         retryCount |-> t.retryCount + 1, log |-> t.log]}]
         /\ retriedIdx' = [retriedIdx EXCEPT ![p] = @ \cup {t.chunk}]
    /\ stats' = [stats EXCEPT ![StatsOwner(p)] = StatsOnRetry(@)]
    /\ soloStats' = [soloStats EXCEPT ![p] = StatsOnRetry(@)]
    /\ last' = [last EXCEPT ![p] = [NoEvent EXCEPT !.op = "wake"]]
    /\ UNCHANGED <<request, response, pc, chunks, pos, translations, stack, returned>>
    /\ UNCHANGED callerVars
    /\ UNCHANGED chunkVars

(***************************************************************************)
(* One translateChunks run on a fresh pipeline, over chunk lists the       *)
(* chunker produces.                                                       *)
(***************************************************************************)
RunTexts ==
    {<<"a", "a", ".", " ", "b", "b", ".", " ", "c", "c", ".">>,
     <<"a", ".", " ", "b", ".", " ", "c", ".">>,
     <<"a">>}

RunBudgets == {1, 2}

\* a sentence of LongSentenceLen characters: the letter c and a full stop
LongSentence(c) ==
    [i \in 1..LongSentenceLen |-> IF i = LongSentenceLen THEN "." ELSE c]

\* two long sentences and a short one: with a budget of LongBudget tokens
\* the long ones share a chunk of more than 100 characters that lasts more
\* than targetSegmentDuration, and the short one has a chunk of its own
LongText ==
    LongSentence("a") \o <<" ">> \o LongSentence("b") \o <<" ">>
        \o <<"c", "c", "c", "c", "c", "c", "c", "c", ".">>

LongBudgets == {31}

RunInputs ==
    {chunkTranscript(t, b) : t \in RunTexts, b \in RunBudgets}
        \cup {chunkTranscript(LongText, b) : b \in LongBudgets}

\* run 1 is about to call translateChunks on a fresh pipeline with one of
\* the chunk lists inputs
InitWith(inputs) ==
    /\ ChunkerIdle
    /\ CallerIdle
    /\ request = [p \in Runs |-> <<>>]
    /\ response = [p \in Runs |-> <<>>]
    /\ pc = [p \in Runs |-> IF p = 1 THEN "ready" ELSE "none"]
    /\ \E cs \in inputs : chunks = [p \in Runs |-> IF p = 1 THEN cs ELSE <<>>]
    /\ pos = [p \in Runs |-> 0]
    /\ stats = [p \in Runs |-> NewStats]
    /\ translations = [p \in Runs |-> <<>>]
    /\ stack = [p \in Runs |-> <<>>]
    /\ inflight = [p \in Runs |-> {}]
    /\ timers = [p \in Runs |-> {}]
    /\ returned = [p \in Runs |-> <<>>]
    /\ last = [p \in Runs |-> NoEvent]
    /\ soloStats = [p \in Runs |-> NewStats]
    /\ retriedIdx = [p \in Runs |-> {}]

Init == InitWith(RunInputs)

Next ==
    \E p \in Runs :
        \/ TranslateChunks(p)
        \/ \E o \in Outcomes : FetchResponds(p, o)
        \/ SleepDone(p)

Spec == Init /\ [][Next]_vars

\* the chunk lists of the termination check
FairInputs == {chunkTranscript(<<"a">>, 1)}

InitFair == InitWith(FairInputs)

\* every awaited call settles, every timer fires
FairSpec == InitFair /\ [][Next]_vars /\ WF_vars(Next)

(***************************************************************************)
(* A pipeline used again: its caller keeps the results it is handed, calls *)
(* setUsedWhisper and translateChunks again.                               *)
(***************************************************************************)
\* result.stats of a result of run p's pipeline: return { srt, stats:
\* this.stats } hands out the pipeline's own object, so what the caller
\* reads of it is what the object holds now
ResultStats(p) == stats[StatsOwner(p)]

\* the caller's await of translateChunks resumes with the result, and it
\* reads the result's stats
CallerReceives(p) ==
    /\ pc[p] = "returned"
    /\ request[p] = <<>>
    /\ pc' = [pc EXCEPT ![p] = "received"]
    /\ received' = [received EXCEPT ![p] = Append(@, ResultStats(p))]
    /\ UNCHANGED <<request, response, chunks, pos, stats, translations, stack,
                   inflight, timers, returned, last, soloStats, retriedIdx>>
    /\ UNCHANGED <<transcript, usedWhisper>>
    /\ UNCHANGED chunkVars

\* setUsedWhisper(used): this.stats.usedWhisper = used
SetUsedWhisper(p, used) ==
    /\ pc[p] \in {"ready", "running", "returned", "received"}
    /\ request[p] = <<>>
    /\ stats' = [stats EXCEPT ![StatsOwner(p)].usedWhisper = used]
    /\ soloStats' = [soloStats EXCEPT ![p].usedWhisper = used]
    /\ UNCHANGED <<request, response, pc, chunks, pos, translations, stack,
                   inflight, timers, returned, last, retriedIdx>>
    /\ UNCHANGED callerVars
    /\ UNCHANGED chunkVars

\* the caller calls translateChunks once more, on the same pipeline
TranslateChunksAgain(p) ==
    /\ pc[p] = "received"
    /\ Len(received[p]) < MaxRuns
    /\ StartTranslate(p, chunks[p], stats[StatsOwner(p)], soloStats[p])
    /\ UNCHANGED <<request, response>>
    /\ UNCHANGED callerVars
    /\ UNCHANGED chunkVars

\* the chunk lists of the runs on a pipeline used again
ReuseInputs == {chunkTranscript(<<"a">>, 1)}

InitReuse == InitWith(ReuseInputs)

NextReuse ==
    \E p \in Runs :
        \/ TranslateChunks(p)
        \/ \E o \in Outcomes : FetchResponds(p, o)
        \/ SleepDone(p)
        \/ CallerReceives(p)
        \/ \E used \in BOOLEAN : SetUsedWhisper(p, used)
        \/ TranslateChunksAgain(p)

SpecReuse == InitReuse /\ [][NextReuse]_vars

(***************************************************************************)
(* The background handler of GENERATE_SUBTITLES messages (content-script   *)
(* transcript variant): one run per message, both runs' continuations      *)
(* interleaved at their awaits.                                            *)
(***************************************************************************)
\* what the content script answers GET_TRANSCRIPT with; <<>> stands for a
\* null or empty transcript, a missing answer or a lastError
ConcTranscripts ==
    {<<>>,
     <<"a", ".", " ", "b", ".">>}

\* sendResponse({ error: userMessage })
ErrorResponse(message) == <<[error |-> message]>>

\* a variant whose answer carries an error next to the subtitles
SuccessResponse_WithError(srt, st) ==
    <<[subtitles |-> srt,
       usedWhisper |-> FALSE,
       error |-> "",
       stats |-> [totalChunks |-> st.totalChunks,
                  successfulChunks |-> st.successfulChunks,
                  failedChunks |-> st.failedChunks]]>>

\* sendResponse({ subtitles: result.srt, usedWhisper: false, stats: {...} }),
\* result.stats being the pipeline's own stats object
SuccessResponse(srt, st) ==
    <<[subtitles |-> srt,
       usedWhisper |-> FALSE,
       stats |-> [totalChunks |-> st.totalChunks,
                  successfulChunks |-> st.successfulChunks,
                  failedChunks |-> st.failedChunks]]>>

\* the listener starts the handler, which awaits chrome.tabs.query
HandleGenerateSubtitles(p) ==
    /\ pc[p] = "idle"
    /\ request' = [request EXCEPT ![p] = <<"GENERATE_SUBTITLES">>]
    /\ pc' = [pc EXCEPT ![p] = "query"]
    /\ UNCHANGED <<response, chunks, pos, stats, translations, stack, inflight,
                   timers, returned, last, soloStats, retriedIdx>>
    /\ UNCHANGED callerVars
    /\ UNCHANGED chunkVars

\* chrome.tabs.query answers: without a tab id the handler throws into its
\* catch block, with one it asks the content script for the transcript
TabsRespond(p, hasTab) ==
    /\ pc[p] = "query"
    /\ pc' = [pc EXCEPT ![p] = IF hasTab THEN "transcript" ELSE "responded"]
    /\ response' = [response EXCEPT ![p] =
                       IF hasTab THEN @ ELSE ErrorResponse("No active YouTube tab found")]
    /\ UNCHANGED <<request, chunks, pos, stats, translations, stack, inflight,
                   timers, returned, last, soloStats, retriedIdx>>
    /\ UNCHANGED callerVars
    /\ UNCHANGED chunkVars

\* the content script answers: without a transcript the handler throws into
\* its catch block; with one it chunks it, constructs its AIPipeline and
\* awaits translateChunks
TranscriptResponds(p, resp) ==
    /\ pc[p] = "transcript"
    /\ IF resp = <<>>
       THEN /\ pc' = [pc EXCEPT ![p] = "responded"]
            /\ response' = [response EXCEPT ![p] = ErrorResponse("No captions available")]
            /\ UNCHANGED <<chunks, pos, stats, translations, stack, inflight,
                           timers, returned, last, soloStats, retriedIdx>>
       ELSE /\ StartTranslate(p, chunkTranscript(resp, 0), NewStats, NewStats)
            /\ UNCHANGED response
    /\ transcript' = [transcript EXCEPT ![p] = IF resp = <<>> THEN @ ELSE <<resp>>]
    /\ UNCHANGED <<request, usedWhisper, received>>
    /\ UNCHANGED chunkVars

\* the handler's await of translateChunks settles and it answers the message
SendResponse(p) ==
    /\ pc[p] \in {"returned", "threw"}
    /\ request[p] # <<>>
    /\ usedWhisper[p] = <<>>
    /\ pc' = [pc EXCEPT ![p] = "responded"]
    /\ response' = [response EXCEPT ![p] =
                       IF pc[p] = "returned"
                       THEN SuccessResponse(returned[p][1], stats[StatsOwner(p)])
                       ELSE ErrorResponse("chunk error")]
    /\ UNCHANGED <<request, chunks, pos, stats, translations, stack, inflight,
                   timers, returned, last, soloStats, retriedIdx>>
    /\ UNCHANGED callerVars
    /\ UNCHANGED chunkVars

InitConc ==
    /\ ChunkerIdle
    /\ CallerIdle
    /\ request = [p \in Runs |-> <<>>]
    /\ response = [p \in Runs |-> <<>>]
    /\ pc = [p \in Runs |-> "idle"]
    /\ chunks = [p \in Runs |-> <<>>]
    /\ pos = [p \in Runs |-> 0]
    /\ stats = [p \in Runs |-> NewStats]
    /\ translations = [p \in Runs |-> <<>>]
    /\ stack = [p \in Runs |-> <<>>]
    /\ inflight = [p \in Runs |-> {}]
    /\ timers = [p \in Runs |-> {}]
    /\ returned = [p \in Runs |-> <<>>]
    /\ last = [p \in Runs |-> NoEvent]
    /\ soloStats = [p \in Runs |-> NewStats]
    /\ retriedIdx = [p \in Runs |-> {}]

NextConc ==
    \E p \in Runs :
        \/ HandleGenerateSubtitles(p)
        \/ \E hasTab \in BOOLEAN : TabsRespond(p, hasTab)
        \/ \E resp \in ConcTranscripts : TranscriptResponds(p, resp)
        \/ \E o \in Outcomes : FetchResponds(p, o)
        \/ SleepDone(p)
        \/ SendResponse(p)

SpecConc == InitConc /\ [][NextConc]_vars

(***************************************************************************)
(* The background handler, Whisper fallback variant: it asks for the       *)
(* native transcript, falls back to Whisper when there is none, and keeps  *)
(* a local usedWhisper.                                                    *)
(***************************************************************************)
\* what getNativeYouTubeTranscript settles with: it rejects, or resolves
\* with a transcript (<<>>: null or empty)
NativeResults ==
    {[threw |-> TRUE, transcript |-> <<>>],
     [threw |-> FALSE, transcript |-> <<>>],
     [threw |-> FALSE, transcript |-> <<"a", ".", " ", "b", ".">>]}

\* what getWhisperTranscript resolves with: null, a bare string (it has no
\* property text), or an object with a text (<<>>: missing or empty) and
\* with or without segments
WhisperResults ==
    {[kind |-> "null", text |-> <<>>, segments |-> FALSE],
     [kind |-> "string", text |-> <<"a", ".">>, segments |-> FALSE],
     [kind |-> "object", text |-> <<>>, segments |-> FALSE],
     [kind |-> "object", text |-> <<"a", ".">>, segments |-> FALSE],
     [kind |-> "object", text |-> <<"a", ".">>, segments |-> TRUE]}

\* whisperResult.text, undefined (<<>>) unless the result is an object
WhisperText(w) == IF w.kind = "object" THEN w.text ELSE <<>>

\* a variant that answers a failure with empty subtitles
ErrorResponseWhisper_EmptySubtitles(message, used) ==
    <<[subtitles |-> <<>>, usedWhisper |-> used]>>

\* sendResponse({ error: userMessage, usedWhisper })
ErrorResponseWhisper(message, used) ==
    <<[error |-> message, usedWhisper |-> used]>>

\* sendResponse({ subtitles: result.srt, usedWhisper, stats: {...} })
SuccessResponseWhisper(srt, st, used) ==
    <<[subtitles |-> srt,
       usedWhisper |-> used,
       stats |-> [totalChunks |-> st.totalChunks,
                  successfulChunks |-> st.successfulChunks,
                  failedChunks |-> st.failedChunks]]>>

\* the handler leaves through its catch block
CatchWhisper(p, message, used) ==
    /\ pc' = [pc EXCEPT ![p] = "responded"]
    /\ response' = [response EXCEPT ![p] = ErrorResponseWhisper(message, used)]
    /\ UNCHANGED <<chunks, pos, stats, translations, stack, inflight,
                   timers, returned, last, soloStats, retriedIdx>>

\* the listener starts the handler, which awaits getNativeYouTubeTranscript
HandleGenerateSubtitlesWhisper(p) ==
    /\ pc[p] = "idle"
    /\ request' = [request EXCEPT ![p] = <<"GENERATE_SUBTITLES">>]
    /\ usedWhisper' = [usedWhisper EXCEPT ![p] = <<FALSE>>]
    /\ pc' = [pc EXCEPT ![p] = "native"]
    /\ UNCHANGED <<response, chunks, pos, stats, translations, stack, inflight,
                   timers, returned, last, soloStats, retriedIdx>>
    /\ UNCHANGED <<transcript, received>>
    /\ UNCHANGED chunkVars

\* getNativeYouTubeTranscript settles: with a transcript the handler chunks
\* it, constructs its AIPipeline, calls setUsedWhisper(false) and awaits
\* translateChunks; without one it awaits getWhisperTranscript
NativeResponds(p, r) ==
    /\ pc[p] = "native"
    /\ IF r.threw
       THEN /\ CatchWhisper(p, "native transcript error", FALSE)
            /\ UNCHANGED <<transcript, usedWhisper>>
       ELSE IF r.transcript = <<>>
       THEN /\ pc' = [pc EXCEPT ![p] = "whisper"]
            /\ usedWhisper' = [usedWhisper EXCEPT ![p] = <<TRUE>>]
            /\ UNCHANGED <<response, chunks, pos, stats, translations, stack,
                           inflight, timers, returned, last, soloStats,
                           retriedIdx, transcript>>
       ELSE /\ StartTranslate(p, chunkTranscript(r.transcript, 0), NewStats, NewStats)
            /\ transcript' = [transcript EXCEPT ![p] = <<r.transcript>>]
            /\ UNCHANGED <<response, usedWhisper>>
    /\ UNCHANGED <<request, received>>
    /\ UNCHANGED chunkVars

\* getWhisperTranscript resolves: without a text the handler throws into
\* its catch block; with a text and segments it translates the text on a
\* pipeline of its own; with a text alone it goes on as with a native
\* transcript, after setUsedWhisper(true)
WhisperResponds(p, w) ==
    /\ pc[p] = "whisper"
    /\ IF WhisperText(w) = <<>>
       THEN /\ CatchWhisper(p, "Could not transcribe audio", TRUE)
            /\ UNCHANGED transcript
       ELSE /\ StartTranslate(p, chunkTranscript(WhisperText(w), 0),
                              IF w.segments THEN NewStats
                              ELSE [NewStats EXCEPT !.usedWhisper = TRUE],
                              IF w.segments THEN NewStats
                              ELSE [NewStats EXCEPT !.usedWhisper = TRUE])
            /\ transcript' = [transcript EXCEPT ![p] = <<WhisperText(w)>>]
            /\ UNCHANGED response
    /\ UNCHANGED <<request, usedWhisper, received>>
    /\ UNCHANGED chunkVars

\* the handler's await of translateChunks settles and it answers the message
SendResponseWhisper(p) ==
    /\ pc[p] \in {"returned", "threw"}
    /\ request[p] # <<>>
    /\ usedWhisper[p] # <<>>
    /\ pc' = [pc EXCEPT ![p] = "responded"]
    /\ response' = [response EXCEPT ![p] =
                       IF pc[p] = "returned"
                       THEN SuccessResponseWhisper(returned[p][1], stats[StatsOwner(p)],
                                                   usedWhisper[p][1])
                       ELSE ErrorResponseWhisper("chunk error", usedWhisper[p][1])]
    /\ UNCHANGED <<request, chunks, pos, stats, translations, stack, inflight,
                   timers, returned, last, soloStats, retriedIdx>>
    /\ UNCHANGED callerVars
    /\ UNCHANGED chunkVars

\* one message, answered by either variant of the handler
InitHandler ==
    /\ ChunkerIdle
    /\ CallerIdle
    /\ request = [p \in Runs |-> <<>>]
    /\ response = [p \in Runs |-> <<>>]
    /\ pc = [p \in Runs |-> IF p = 1 THEN "idle" ELSE "none"]
    /\ chunks = [p \in Runs |-> <<>>]
    /\ pos = [p \in Runs |-> 0]
    /\ stats = [p \in Runs |-> NewStats]
    /\ translations = [p \in Runs |-> <<>>]
    /\ stack = [p \in Runs |-> <<>>]
    /\ inflight = [p \in Runs |-> {}]
    /\ timers = [p \in Runs |-> {}]
    /\ returned = [p \in Runs |-> <<>>]
    /\ last = [p \in Runs |-> NoEvent]
    /\ soloStats = [p \in Runs |-> NewStats]
    /\ retriedIdx = [p \in Runs |-> {}]

NextHandler ==
    \E p \in Runs :
        \/ HandleGenerateSubtitles(p)
        \/ \E hasTab \in BOOLEAN : TabsRespond(p, hasTab)
        \/ \E resp \in ConcTranscripts : TranscriptResponds(p, resp)
        \/ HandleGenerateSubtitlesWhisper(p)
        \/ \E r \in NativeResults : NativeResponds(p, r)
        \/ \E w \in WhisperResults : WhisperResponds(p, w)
        \/ \E o \in Outcomes : FetchResponds(p, o)
        \/ SleepDone(p)
        \/ SendResponse(p)
        \/ SendResponseWhisper(p)

SpecHandler == InitHandler /\ [][NextHandler]_vars

\* the same with the handler's continuation scheduled: once its await of
\* translateChunks has settled, the handler resumes
Resumes == \E p \in Runs : SendResponse(p) \/ SendResponseWhisper(p)

FairHandler == SpecHandler /\ WF_vars(Resumes)


(***************************************************************************)
(* Properties.                                                             *)
(***************************************************************************)
Range(f) == {f[i] : i \in DOMAIN f}

\* the translations of the results that succeeded, in order
RECURSIVE SucceededTranslations(_)
SucceededTranslations(rs) ==
    IF rs = <<>> THEN <<>>
    ELSE (IF Succeeded(rs[1]) THEN <<rs[1].translation>> ELSE <<>>)
           \o SucceededTranslations(Tail(rs))

\* the requests of run p awaiting an answer or a backoff delay
Pending(p) ==
    {[chunk |-> r.chunk, content |-> r.content] : r \in inflight[p] \cup timers[p]}

(***************************************************************************)
(* C1: for every non-empty text and every budget, the contents of the      *)
(* chunks of chunkTranscript(text, budget), joined with single spaces in   *)
(* index order, are the whitespace-normalized text.  Stated up to          *)
(* normalisation of the joined side as well, which the claim implies.      *)
(***************************************************************************)
C1_JoinPreservesText ==
    (chunked # <<>> /\ text # <<>>)
        => Normalize(JoinSpace(Contents(chunked[1]))) = Normalize(text)

(***************************************************************************)
(* C2: when every awaited call settles, translateChunks eventually         *)
(* returns, whatever the provider answers.                                 *)
(***************************************************************************)
C2_TranslateChunksReturns == <>(pc[1] = "returned")

(***************************************************************************)
(* C3: a size-limit error makes translateChunk re-chunk its content with   *)
(* factor 2 and translate the sub-chunks one after the other, each through *)
(* translateChunk; what it returns is the space-join, in sub-chunk order,  *)
(* of the translations of the sub-chunks that succeeded, and it succeeds   *)
(* exactly when one of them did.  Succeeded is the code's test, success    *)
(* with a non-empty translation.                                           *)
(***************************************************************************)
C3_SplitAggregates ==
    \A p \in Runs :
        /\ \A c \in Range(last[p].chain) :
               c.end = "throwTokenLimit"
                   => last[p].op = "split" /\ stack[p] # <<>>
        /\ \A f \in Range(stack[p]) :
               /\ f.subs = rechunkOnError(f.content, 2)
               /\ f.k \in 1..Len(f.subs)
               /\ Len(f.subres) = f.k - 1
        /\ stack[p] # <<>>
               => \A r \in Pending(p) :
                      LET top == stack[p][Len(stack[p])]
                      IN  r.content = top.subs[top.k].content
        /\ \A f \in Range(last[p].frame) :
               /\ Len(f.subres) = Len(f.subs)
               /\ f.result.translation = JoinSpace(SucceededTranslations(f.subres))
               /\ f.result.success <=> \E k \in 1..Len(f.subres) : Succeeded(f.subres[k])
               /\ f.result.success <=> Succeeded(f.result)

\* a re-chunked content has returned: its first sub-chunk succeeded, its
\* second failed
C3_Witness ==
    \E f \in Range(last[1].frame) :
        /\ Len(f.subs) = 2
        /\ Succeeded(f.subres[1])
        /\ ~Succeeded(f.subres[2])
        /\ f.result = [success |-> TRUE, translation |-> f.subres[1].translation]

(***************************************************************************)
(* C4: a call whose every request is answered 429 makes exactly 4 requests *)
(* and then throws; the delay awaited before retry k is 1000, 2000, 4000   *)
(* ms for k = 1, 2, 3; no call is retried more than 3 times.               *)
(***************************************************************************)
C4_RateLimitBackoff ==
    \A p \in Runs :
        /\ \A c \in Range(last[p].chain) :
               /\ Len(c.log) <= 4
               /\ (\A i \in 1..Len(c.log) : c.log[i] = "rate")
                      => Len(c.log) = 4 /\ c.end = "throw"
        /\ \A t \in timers[p] :
               /\ Len(t.log) = t.retryCount + 1
               /\ t.delay = CASE t.retryCount = 0 -> 1000
                              [] t.retryCount = 1 -> 2000
                              [] t.retryCount = 2 -> 4000
                              [] OTHER -> 0
        /\ \A r \in inflight[p] :
               /\ r.retryCount <= 3
               /\ Len(r.log) = r.retryCount

\* a call has given up after four 429 answers
C4_Witness ==
    /\ last[1].chain # <<>>
    /\ last[1].chain[1] = [log |-> <<"rate", "rate", "rate", "rate">>, end |-> "throw"]

C6_CountersTrackResolved ==
    \A p \in Runs :
        pc[p] \in {"running", "returned"}
            => LET st == stats[StatsOwner(p)]
               IN  /\ st.totalChunks = Len(chunks[p])
                   /\ st.successfulChunks + st.failedChunks = Len(translations[p])
                   /\ st.successfulChunks + st.failedChunks = pos[p] - 1
                   /\ st.successfulChunks + st.failedChunks <= st.totalChunks
                   /\ st.failedChunks
                          = Cardinality({k \in 1..Len(translations[p]) :
                                translations[p][k].content
                                    = Placeholder(chunks[p][k].content)})
                   /\ pc[p] = "returned"
                          => st.successfulChunks + st.failedChunks = st.totalChunks

\* the first of two chunks was re-chunked, both its sub-chunks succeeded,
\* and it counts once
C6_Witness ==
    /\ pc[1] = "running"
    /\ last[1].op = "resolved"
    /\ last[1].frame # <<>>
    /\ Len(last[1].frame[1].subs) = 2
    /\ \A k \in 1..2 : Succeeded(last[1].frame[1].subres[k])
    /\ stats[1] = [NewStats EXCEPT !.totalChunks = 2, !.successfulChunks = 1]

(***************************************************************************)
(* C7: stats.retriedChunks is the number of input chunks that needed a     *)
(* retry, however many retries each took.                                  *)
(***************************************************************************)
C7_RetriedCountsChunks ==
    \A p \in Runs :
        pc[p] \in {"running", "returned"}
            => stats[StatsOwner(p)].retriedChunks = Cardinality(retriedIdx[p])

C9_OneCallInIndexOrder ==
    \A p \in Runs :
        /\ Cardinality(inflight[p]) + Cardinality(timers[p]) <= 1
        /\ \A r \in inflight[p] \cup timers[p] :
               /\ r.chunk = pos[p]
               /\ r.chunk = Len(translations[p]) + 1
               /\ chunks[p][r.chunk].index = r.chunk

\* the second chunk's call is out after the first chunk was retried and
\* resolved
C9_Witness ==
    /\ \E r \in inflight[1] : r.chunk = 2 /\ r.retryCount = 0
    /\ Len(translations[1]) = 1
    /\ retriedIdx[1] = {1}

(***************************************************************************)
(* C10: two requests handled at the same time do not interfere: each       *)
(* run's stats are those the run has on a stats object of its own, and     *)
(* the answer to each request carries them and the subtitles made of the   *)
(* run's own translations.                                                 *)
(***************************************************************************)
C10_RunsDoNotInterfere ==
    \A p \in Runs :
        /\ pc[p] \in {"running", "returned"} => stats[StatsOwner(p)] = soloStats[p]
        /\ (response[p] # <<>> /\ "stats" \in DOMAIN response[p][1])
               => /\ response[p][1].stats
                        = [totalChunks |-> soloStats[p].totalChunks,
                           successfulChunks |-> soloStats[p].successfulChunks,
                           failedChunks |-> soloStats[p].failedChunks]
                  /\ response[p][1].subtitles = FinalSRT(translations[p])

\* request 1 has been answered with its chunk translated while request 2
\* is in its run, one retry made
C10_Witness ==
    /\ response[1] # <<>>
    /\ "stats" \in DOMAIN response[1][1]
    /\ response[1][1].stats.successfulChunks = 1
    /\ pc[2] = "running"
    /\ stats[2].retriedChunks = 1


(***************************************************************************)
(* Yardsticks for segment lists.                                           *)
(***************************************************************************)
RatLeq(x, y) == x.n * y.d <= y.n * x.d

\* the text has a character that is not whitespace
NonBlank(t) == \E i \in 1..Len(t) : ~IsSpace(t[i])

\* segs is not empty and tiles [from, to]: it starts at from, every segment
\* has a positive length, every next one starts where the previous one
\* ended, and the last one ends at to
Tiles(segs, from, to) ==
    /\ segs # <<>>
    /\ segs[1].startTime = from
    /\ \A j \in 1..Len(segs) : RatLess(segs[j].startTime, segs[j].endTime)
    /\ \A j \in 1..(Len(segs) - 1) : segs[j + 1].startTime = segs[j].endTime
    /\ segs[Len(segs)].endTime = to

\* C12: for every text with a non-whitespace character and every
\* totalDuration > 0, splitIntoSRTSegments returns a non-empty sequence that
\* tiles [0, totalDuration]: it starts at 0, every endTime is after its
\* startTime, every next startTime is the previous endTime, and the last
\* endTime is totalDuration.
C12_SegmentsTile ==
    (segmented # <<>> /\ NonBlank(text) /\ totalDuration > 0)
        => Tiles(segmented[1], Rat(0, 1), Rat(totalDuration, 1))

\* what holds of splitIntoSRTSegments: the same for a text that is its own
\* trim (as every text translateChunks hands over is)
SegmentsTileTrimmedText ==
    (segmented # <<>> /\ text # <<>> /\ Trim(text) = text /\ totalDuration > 0)
        => Tiles(segmented[1], Rat(0, 1), Rat(totalDuration, 1))

SegmentsTileTrimmedText_Witness ==
    /\ segmented # <<>>
    /\ Trim(text) = text
    /\ Len(segmented[1]) >= 2


\* the sum of the durations of the translations before position k
RECURSIVE Offset(_, _)
Offset(sorted, k) == IF k <= 1 THEN 0 ELSE Offset(sorted, k - 1) + sorted[k - 1].duration

\* segs starts at 0, no segment starts before the previous one ended, the
\* last one ends at the sum of all durations, and for every position k a
\* run of consecutive segments tiles the interval of the k-th translation
TimedTiles(segs, sorted) ==
    /\ segs # <<>>
    /\ segs[1].startTime = Rat(0, 1)
    /\ \A j \in 1..(Len(segs) - 1) : RatLeq(segs[j].endTime, segs[j + 1].startTime)
    /\ segs[Len(segs)].endTime = Rat(Offset(sorted, Len(sorted) + 1), 1)
    /\ \A k \in 1..Len(sorted) :
           \E i \in 1..Len(segs) : \E j \in i..Len(segs) :
               Tiles(SubSeq(segs, i, j),
                     Rat(Offset(sorted, k), 1), Rat(Offset(sorted, k + 1), 1))

(***************************************************************************)
(* C11: when every chunk has estimatedDuration > 0, the segment list that  *)
(* translateChunks passes to generateSRT starts at time 0, the segments of *)
(* the chunk at position k in index order occupy exactly the interval from *)
(* the sum of the earlier chunks' estimatedDurations to that sum plus its  *)
(* own, each segment starts no earlier than the previous one ended, and    *)
(* the last endTime is the sum of all estimatedDurations.                  *)
(***************************************************************************)
C11_TimedSegmentsTile ==
    \A p \in Runs :
        (/\ pc[p] = "returned"
         /\ chunks[p] # <<>>
         /\ \A k \in 1..Len(chunks[p]) : chunks[p][k].estimatedDuration > 0)
            => \A sorted \in {SortByIndex(translations[p])} :
                   /\ \A k \in 1..Len(chunks[p]) :
                          /\ sorted[k].index = chunks[p][k].index
                          /\ sorted[k].duration = chunks[p][k].estimatedDuration
                   /\ \A segs \in {TimedSegments(sorted, 1, 0)} :
                          /\ returned[p] = <<generateSRT(segs)>>
                          /\ TimedTiles(segs, sorted)

\* a run has returned the subtitles of two chunks, the first of which lasts
\* longer than targetSegmentDuration and was cut into two segments
C11_Witness ==
    /\ pc[1] = "returned"
    /\ Len(chunks[1]) = 2
    /\ chunks[1][1].estimatedDuration > targetSegmentDuration
    /\ Len(TimedSegments(SortByIndex(translations[1]), 1, 0)) = 3


\* s is the failure marker, the first n characters of content, and "...]"
EchoesPrefix(s, content, n) ==
    /\ n >= 0
    /\ n <= Len(content)
    /\ s = FailurePrefix \o SubSeq(content, 1, n) \o <<".", ".", ".", "]">>

(***************************************************************************)
(* C13: the text pushed for an input chunk, whatever its outcome, is never *)
(* the empty string; for a chunk that ends failed (a call that returned an *)
(* empty or whitespace-only translation included) it is a placeholder that *)
(* echoes at most the first 100 characters of the chunk's content.         *)
(***************************************************************************)
C13_SlotTextNeverEmpty ==
    \A p \in Runs :
        /\ \A k \in 1..Len(translations[p]) : translations[p][k].content # <<>>
        /\ (last[p].op = "resolved" /\ last[p].resolved = <<FALSE>>)
               => \A e \in {translations[p][Len(translations[p])]} :
                      /\ Len(e.content) - Len(FailurePrefix) - 4 <= 100
                      /\ EchoesPrefix(e.content, chunks[p][e.index].content,
                                      Len(e.content) - Len(FailurePrefix) - 4)

\* a chunk of more than 100 characters got an empty translation and ended
\* failed: its placeholder echoes 100 of them
C13_Witness ==
    /\ last[1].op = "resolved"
    /\ last[1].resolved = <<FALSE>>
    /\ last[1].chain[1].log = <<"empty">>
    /\ Len(chunks[1][1].content) > 100
    /\ Len(translations[1]) = 1
    /\ Len(translations[1][1].content) = Len(FailurePrefix) + 100 + 4


\* the text starts with the failure marker
Marked(s) == Len(s) >= Len(FailurePrefix) /\ SubSeq(s, 1, Len(FailurePrefix)) = FailurePrefix

\* the contents of the segments of segs[j..] that lie within [from, to]
RECURSIVE SpanContents(_, _, _, _)
SpanContents(segs, j, from, to) ==
    IF j > Len(segs) THEN <<>>
    ELSE (IF RatLeq(from, segs[j].startTime) /\ RatLeq(segs[j].endTime, to)
          THEN <<segs[j].content>> ELSE <<>>)
           \o SpanContents(segs, j + 1, from, to)

(***************************************************************************)
(* C14: whenever a chunk ends failed, the subtitles translateChunks        *)
(* returns hold, in that chunk's time span, the chunk's placeholder: the   *)
(* failure marker and the echoed excerpt of the source.                    *)
(***************************************************************************)
C14_FailedSpanMarked ==
    \A p \in Runs :
        pc[p] = "returned"
            => \A sorted \in {SortByIndex(translations[p])} :
               \A segs \in {TimedSegments(sorted, 1, 0)} :
                   /\ returned[p] = <<generateSRT(segs)>>
                   /\ \A k \in 1..Len(sorted) :
                          Marked(sorted[k].content)
                              => Normalize(JoinSpace(SpanContents(segs, 1,
                                     Rat(Offset(sorted, k), 1),
                                     Rat(Offset(sorted, k + 1), 1))))
                                   = Normalize(sorted[k].content)


\* the sentence candidates of t as the loops see them: trimmed
TrimmedSentences(t) == {Trim(c) : c \in Range(Sentences(t))}

(***************************************************************************)
(* C15: a chunk returned by chunkTranscript is longer than the character   *)
(* ceiling (4 x budget) only if it consists of a single sentence           *)
(* candidate; a chunk of two or more candidates is at most 4 x budget      *)
(* long.                                                                   *)
(***************************************************************************)
C15_OverlongIsOneSentence ==
    chunked # <<>>
        => \A k \in 1..Len(chunked[1]) :
               Len(chunked[1][k].content) > MaxChars(text, budget)
                   => chunked[1][k].content \in TrimmedSentences(text)

(***************************************************************************)
(* C16: every chunk returned by chunkTranscript, except possibly the last, *)
(* has a content that ends with one of the terminal marks.                 *)
(***************************************************************************)
C16_ChunksEndAtSentenceEnd ==
    chunked # <<>>
        => \A k \in 1..(Len(chunked[1]) - 1) :
               /\ chunked[1][k].content # <<>>
               /\ IsTerm(chunked[1][k].content[Len(chunked[1][k].content)])

\* a text was cut into two chunks
C16_Witness ==
    /\ chunked # <<>>
    /\ Len(chunked[1]) = 2
    /\ budget = 1

\* the chunk has a content and lasts ceil(length / 10) seconds
WellFormedChunk(c) ==
    /\ c.content # <<>>
    /\ c.estimatedDuration = CeilDiv(Len(c.content), charsPerSecond)
    /\ c.estimatedDuration >= 1

(***************************************************************************)
(* C17: every chunk returned by chunkTranscript or by rechunkOnError, for  *)
(* any input, has a non-empty content and an estimatedDuration of          *)
(* ceil(content length / 10), hence at least 1.  Checked of the results of *)
(* rechunkOnError for contents that have a non-whitespace character.       *)
(***************************************************************************)
C17_ChunksWellFormed ==
    /\ chunked # <<>> => \A k \in 1..Len(chunked[1]) : WellFormedChunk(chunked[1][k])
    /\ (rechunked # <<>> /\ NonBlank(text))
           => \A k \in 1..Len(rechunked[1]) : WellFormedChunk(rechunked[1][k])

\* what holds: the chunks of chunkTranscript are well formed, and so are
\* those rechunkOnError makes of a content that is its own trim
ChunksWellFormedOfTrimmed ==
    /\ chunked # <<>> => \A k \in 1..Len(chunked[1]) : WellFormedChunk(chunked[1][k])
    /\ (rechunked # <<>> /\ text # <<>> /\ Trim(text) = text)
           => \A k \in 1..Len(rechunked[1]) : WellFormedChunk(rechunked[1][k])

(***************************************************************************)
(* C18: the chunk at position k of the sequence chunkTranscript returns    *)
(* has index k and total the number of chunks returned.                    *)
(***************************************************************************)
C18_IndexIsPosition ==
    chunked # <<>>
        => \A k \in 1..Len(chunked[1]) :
               /\ chunked[1][k].index = k
               /\ chunked[1][k].total = Len(chunked[1])

\* a text was cut into two chunks, numbered 1 and 2 of 2
C18_Witness ==
    /\ chunked # <<>>
    /\ Len(chunked[1]) = 2
    /\ chunked[1][2].index = 2
    /\ chunked[1][1].total = 2

(***************************************************************************)
(* C19: for a content of at least two sentence candidates and a factor of  *)
(* 2 or more rechunkOnError returns more than one chunk; for a content of  *)
(* a single candidate it returns exactly one.                              *)
(***************************************************************************)
C19_RechunkSplits ==
    rechunked # <<>>
        => /\ (Len(Sentences(text)) >= 2 /\ factor >= 2) => Len(rechunked[1]) > 1
           /\ Len(Sentences(text)) = 1 => Len(rechunked[1]) = 1

\* a content of two sentences was split in two
C19_Witness ==
    /\ rechunked # <<>>
    /\ factor = rechunkFactor
    /\ text = <<"a", ".", " ", "a", "?">>
    /\ Contents(rechunked[1]) = <<<<"a", ".">>, <<"a", "?">>>>

(***************************************************************************)
(* C20: the contents of the chunks rechunkOnError returns, joined with     *)
(* single spaces in order, are the whitespace-normalized content of the    *)
(* input chunk.  Stated up to normalisation of the joined side as well,    *)
(* which the claim implies.                                                *)
(***************************************************************************)
C20_RechunkPreservesText ==
    (rechunked # <<>> /\ text # <<>>)
        => Normalize(JoinSpace(Contents(rechunked[1]))) = Normalize(text)


(***************************************************************************)
(* C21: splitIntoSRTSegments called with a totalDuration that is zero or   *)
(* negative fails with an error: it does not return a segment sequence.    *)
(***************************************************************************)
C21_NonPositiveDurationNeverReturns ==
    totalDuration <= 0 => segmented = <<>>


\* the response carries an error and no subtitles
IsErrorResponse(r) ==
    /\ r # <<>>
    /\ "error" \in DOMAIN r[1]
    /\ "subtitles" \notin DOMAIN r[1]

(***************************************************************************)
(* C22: if no transcript can be obtained by any means, the handler answers *)
(* the request with an error and no subtitles, before any chunking is done *)
(* and before any translation call is issued: as long as the handler has   *)
(* no transcript nothing is chunked and nothing is submitted, and a        *)
(* handler that ends without one has answered with an error.               *)
(***************************************************************************)
C22_NoTranscriptIsTerminalError ==
    \A p \in Runs :
        (request[p] # <<>> /\ transcript[p] = <<>>)
            => /\ chunks[p] = <<>>
               /\ pos[p] = 0
               /\ inflight[p] = {}
               /\ timers[p] = {}
               /\ translations[p] = <<>>
               /\ stats[StatsOwner(p)].totalChunks = 0
               /\ pc[p] \in {"query", "transcript", "native", "whisper", "responded"}
               /\ pc[p] = "responded" => IsErrorResponse(response[p])

\* native captions and the Whisper fallback both gave nothing, and the
\* handler has answered
C22_Witness ==
    /\ pc[1] = "responded"
    /\ usedWhisper[1] = <<TRUE>>
    /\ transcript[1] = <<>>
    /\ response[1] = ErrorResponseWhisper("Could not transcribe audio", TRUE)


(***************************************************************************)
(* C23: the stats that translateChunks returns to the caller is a          *)
(* read-only snapshot: whatever is done on the same pipeline afterwards    *)
(* (setUsedWhisper, a further translateChunks run), the stats of every     *)
(* result the caller holds keep the values it received.                    *)
(***************************************************************************)
C23_ReturnedStatsIsSnapshot ==
    \A p \in Runs :
        \A i \in 1..Len(received[p]) : ResultStats(p) = received[p][i]


\* the budget the claim names for a text of n characters
BandSize(n) ==
    IF n <= 3000 THEN 3000
    ELSE IF n <= 9000 THEN 2500
    ELSE IF n <= 18000 THEN 2000
    ELSE IF n <= 36000 THEN 1500
    ELSE 1000

(***************************************************************************)
(* C27: for a text of length n estimateTranscript recommends 3000 when     *)
(* n <= 3000, 2500 up to 9000, 2000 up to 18000, 1500 up to 36000 and 1000 *)
(* beyond; a warning is present exactly when n > 9000, isLongVideo is true *)
(* exactly when n > 9000, and estimatedDuration is n / 600 rounded to the  *)
(* nearest minute.                                                         *)
(***************************************************************************)
C27_EstimateBands ==
    estimated # <<>>
        => /\ estimated[1].recommendedChunkSize = BandSize(Len(text))
           /\ (estimated[1].warningMessage # "none") <=> (Len(text) > 9000)
           /\ estimated[1].isLongVideo <=> (Len(text) > 9000)
           /\ 2 * (600 * estimated[1].estimatedDuration - Len(text)) <= 600
           /\ 2 * (Len(text) - 600 * estimated[1].estimatedDuration) <= 600

\* a text of exactly 5 minutes was estimated
C27_Witness ==
    /\ estimated # <<>>
    /\ Len(text) = 3000
    /\ estimated[1].recommendedChunkSize = 3000
    /\ estimated[1].estimatedDuration = 5


\* some sentence candidate of t is not empty after trimming
HasCandidate(t) == \E c \in Range(Sentences(t)) : Trim(c) # <<>>

GroupSize(n, f) == CeilDiv(n, f)

\* the trimmed candidates of group k, joined as the code joins them
GroupContent(S, g, k) ==
    JoinSpace([j \in 1..(IF k * g <= Len(S) THEN g ELSE Len(S) - (k - 1) * g)
                   |-> Trim(S[(k - 1) * g + j])])

GroupedBy(S, g, out) ==
    /\ g >= 1
    /\ Len(out) = CeilDiv(Len(S), g)
    /\ Len(S) - (Len(out) - 1) * g \in 1..g
    /\ \A k \in 1..Len(out) :
           /\ out[k].content = GroupContent(S, g, k)
           /\ out[k].index = k
           /\ out[k].total = Len(out)

C30_RechunkGroups ==
    rechunked # <<>>
        => /\ GroupedBy(Sentences(text), GroupSize(Len(Sentences(text)), factor),
                        rechunked[1])
           /\ Len(rechunked[1]) <= factor

\* five sentences at factor 3 come out as groups of two, two and one
C30_Witness ==
    /\ rechunked # <<>>
    /\ text = SentenceRun(5)
    /\ factor = 3
    /\ Contents(rechunked[1])
           = <<SentenceRun(2), SentenceRun(2), SentenceRun(1)>>

(***************************************************************************)
(* C25: generateSRT renders a time t >= 0 as HH:MM:SS,mmm with two-digit   *)
(* hours, minutes and seconds, minutes and seconds below 60, a comma and   *)
(* three millisecond digits, the rendered value v satisfying               *)
(* v <= t < v + 0.001.  Checked on the two times of the first entry.       *)
(***************************************************************************)
\* the second line of the output: the times of the first entry
TimesLine(out) == SplitLines(out, 1, <<>>)[2]

\* the position of " --> " in the line
ArrowPos(line) ==
    CHOOSE i \in 1..Len(line) :
        i + 4 <= Len(line) /\ SubSeq(line, i, i + 4) = <<" ", "-", "-", ">", " ">>

StartStamp(out) == SubSeq(TimesLine(out), 1, ArrowPos(TimesLine(out)) - 1)

EndStamp(out) ==
    SubSeq(TimesLine(out), ArrowPos(TimesLine(out)) + 5, Len(TimesLine(out)))

\* the value of a run of digits
RECURSIVE DigitsValue(_)
DigitsValue(ds) ==
    IF ds = <<>> THEN 0
    ELSE DigitsValue(SubSeq(ds, 1, Len(ds) - 1)) * 10 + DigitValue(ds[Len(ds)])

\* h digits of hours, then :MM:SS,mmm
StampShape(st, h) ==
    /\ Len(st) = h + 10
    /\ \A i \in (1..h) \cup {h + 2, h + 3, h + 5, h + 6, h + 8, h + 9, h + 10} :
           IsDigit(st[i])
    /\ st[h + 1] = ":"
    /\ st[h + 4] = ":"
    /\ st[h + 7] = ","
    /\ TwoDigits(st, h + 2) < 60
    /\ TwoDigits(st, h + 5) < 60

\* the time a stamp with h digits of hours denotes, in milliseconds
StampValue(st, h) ==
    (DigitsValue(SubSeq(st, 1, h)) * 3600 + TwoDigits(st, h + 2) * 60
         + TwoDigits(st, h + 5)) * 1000
        + DigitsValue(SubSeq(st, h + 8, h + 10))

\* v <= t < v + 0.001, for v = ms / 1000
TruncatedTo(ms, t) == ms * t.d <= 1000 * t.n /\ 1000 * t.n < (ms + 1) * t.d

RendersTwoDigitHours(st, t) ==
    /\ StampShape(st, 2)
    /\ TruncatedTo(StampValue(st, 2), t)

Renders(st, t) ==
    /\ Len(st) >= 12
    /\ StampShape(st, Len(st) - 10)
    /\ TruncatedTo(StampValue(st, Len(st) - 10), t)
    /\ Len(st) = 12 <=> RatLess(t, Rat(360000, 1))
    /\ Len(st) > 12 => st[1] # "0"

EntryText(seg, k) ==
    NumToString(k) \o <<"\n">> \o formatTime(seg.startTime)
        \o <<" ", "-", "-", ">", " ">> \o formatTime(seg.endTime)
        \o <<"\n">> \o seg.content \o <<"\n">>

\* where entry k starts in the output, less one
RECURSIVE EntryOffset(_, _)
EntryOffset(segs, k) ==
    IF k = 1 THEN 0
    ELSE EntryOffset(segs, k - 1) + Len(EntryText(segs[k - 1], k - 1)) + 1

EntriesIn(segs, out) ==
    /\ segs = <<>> => out = <<>>
    /\ segs # <<>>
           => Len(out) = EntryOffset(segs, Len(segs))
                            + Len(EntryText(segs[Len(segs)], Len(segs)))
    /\ \A k \in 1..Len(segs) :
           /\ SubSeq(out, EntryOffset(segs, k) + 1,
                     EntryOffset(segs, k) + Len(EntryText(segs[k], k)))
                  = EntryText(segs[k], k)
           /\ k > 1 => out[EntryOffset(segs, k)] = "\n"

C26_EntriesInOrder == srtText # <<>> => EntriesIn(timedSegments, srtText[1])

\* two entries with a blank line between them
C26_Witness ==
    /\ Len(timedSegments) = 2
    /\ srtText
           = <<<<"1", "\n", "0", "0", ":", "0", "0", ":", "0", "0", ",", "0",
               "0", "0", " ", "-", "-", ">", " ", "0", "0", ":", "0", "0",
               ":", "5", "9", ",", "9", "9", "9", "\n", "a", "\n", "\n",
               "2", "\n", "0", "1", ":", "0", "1", ":", "0", "1", ",", "5",
               "0", "0", " ", "-", "-", ">", " ", "0", "1", ":", "0", "1",
               ":", "0", "2", ",", "0", "0", "0", "\n", "a", "\n">>>>

(***************************************************************************)
(* C24: for segments with non-empty content without a blank line and       *)
(* 0 <= startTime < endTime, parseSRT(generateSRT(segments)) has one cue   *)
(* per segment, in order, with the segment's content as its text and the   *)
(* segment's times cut to the millisecond as its start and end.            *)
(***************************************************************************)
HasBlankLine(c) == \E i \in 1..(Len(c) - 1) : c[i] = "\n" /\ c[i + 1] = "\n"

Ordered(seg) ==
    /\ RatLeq(Rat(0, 1), seg.startTime)
    /\ RatLess(seg.startTime, seg.endTime)

WellFormedSegment(seg) ==
    /\ seg.content # <<>>
    /\ ~HasBlankLine(seg.content)
    /\ Ordered(seg)

\* a cue's time, a multiple of a millisecond, in milliseconds
CueMillis(x) == x.n * (1000 \div x.d)

SameTimes(cue, seg) ==
    /\ 1000 % cue.start.d = 0
    /\ 1000 % cue.end.d = 0
    /\ TruncatedTo(CueMillis(cue.start), seg.startTime)
    /\ TruncatedTo(CueMillis(cue.end), seg.endTime)

C24_RoundTrip ==
    (cues # <<>> /\ \A k \in 1..Len(timedSegments) : WellFormedSegment(timedSegments[k]))
        => /\ Len(cues[1]) = Len(timedSegments)
           /\ \A k \in 1..Len(timedSegments) :
                  /\ cues[1][k].text = timedSegments[k].content
                  /\ SameTimes(cues[1][k], timedSegments[k])

\* C24 as the code has it: the content holds a character that is no
\* whitespace, the times are below 100 hours, and the cue's text is the
\* content without its outer whitespace, each line break turned into a space
Readable(seg) ==
    /\ Trim(seg.content) # <<>>
    /\ ~HasBlankLine(seg.content)
    /\ Ordered(seg)
    /\ RatLess(seg.endTime, Rat(360000, 1))

OnOneLine(shown, c) ==
    /\ Len(shown) = Len(c)
    /\ \A i \in 1..Len(c) : shown[i] = IF c[i] = "\n" THEN " " ELSE c[i]

C24_RoundTripOnOneLine ==
    (cues # <<>> /\ \A k \in 1..Len(timedSegments) : Readable(timedSegments[k]))
        => /\ Len(cues[1]) = Len(timedSegments)
           /\ \A k \in 1..Len(timedSegments) :
                  /\ OnOneLine(cues[1][k].text, Trim(timedSegments[k].content))
                  /\ SameTimes(cues[1][k], timedSegments[k])

\* two segments, one of two lines and one with a leading space, came back
\* as two cues
C24_Witness ==
    /\ Len(timedSegments) = 2
    /\ timedSegments[1].content = <<"a", "\n", "b">>
    /\ timedSegments[1].startTime = Rat(1, 3)
    /\ timedSegments[2].content = <<" ", "a">>
    /\ cues = <<<<[start |-> Rat(333, 1000), end |-> Rat(617, 500),
                   text |-> <<"a", " ", "b">>],
                  [start |-> Rat(7323, 2), end |-> Rat(3662, 1),
                   text |-> <<"a">>]>>>>

(***************************************************************************)
(* C31: in the result of splitIntoSRTSegments for a positive duration a    *)
(* segment that is not the last one and lasts longer than the 5-second     *)
(* target consists of a single sentence candidate.                         *)
(***************************************************************************)
LastsAtMostTarget(seg) ==
    RatLeq(seg.endTime, RatAdd(seg.startTime, Rat(targetSegmentDuration, 1)))

C31_LongSegmentIsOneSentence ==
    (segmented # <<>> /\ totalDuration > 0)
        => \A k \in 1..(Len(segmented[1]) - 1) :
               \/ LastsAtMostTarget(segmented[1][k])
               \/ segmented[1][k].content \in TrimmedSentences(text)

(***************************************************************************)
(* C32: for a positive duration the contents of the segments               *)
(* splitIntoSRTSegments returns, joined with single spaces in order, are   *)
(* the whitespace-normalized text.  Stated up to normalisation of the      *)
(* joined side as well, which the claim implies.                           *)
(***************************************************************************)
C32_SegmentsPreserveText ==
    (segmented # <<>> /\ totalDuration > 0)
        => Normalize(JoinSpace(Contents(segmented[1]))) = Normalize(text)

(***************************************************************************)
(* C33: for a GENERATE_SUBTITLES request whose translation run ends the    *)
(* handler calls sendResponse exactly once, with subtitles and stats or    *)
(* with an error, never both and never neither: an answer is one of the    *)
(* two kinds and is given exactly when the handler is done, a handler that *)
(* has answered does nothing more, and a handler whose translateChunks     *)
(* call has settled answers.                                               *)
(***************************************************************************)
IsSuccessResponse(r) ==
    /\ r # <<>>
    /\ {"subtitles", "stats"} \subseteq DOMAIN r[1]
    /\ "error" \notin DOMAIN r[1]

AnsweredWhenDone ==
    \A p \in Runs :
        /\ Len(response[p]) <= 1
        /\ response[p] # <<>> <=> pc[p] = "responded"
        /\ response[p] # <<>>
               => (IsSuccessResponse(response[p]) \/ IsErrorResponse(response[p]))
        /\ IsSuccessResponse(response[p]) => returned[p] # <<>>

AnswerIsFinal ==
    \A p \in Runs :
        response[p] # <<>> => (response'[p] = response[p] /\ pc'[p] = pc[p])

Settled(p) == request[p] # <<>> /\ pc[p] \in {"returned", "threw"}

C33_OneResponse ==
    /\ []AnsweredWhenDone
    /\ [][AnswerIsFinal]_vars
    /\ \A p \in Runs : Settled(p) ~> (response[p] # <<>>)

\* a translation run has ended and the handler has answered with subtitles
C33_Witness ==
    /\ pc[1] = "responded"
    /\ returned[1] # <<>>
    /\ IsSuccessResponse(response[1])
    /\ response[1][1].stats.totalChunks >= 1

(***************************************************************************)
(* C34: the three signals of estimateTranscript agree: isLongVideo is true *)
(* exactly when a warningMessage is present, exactly when                  *)
(* recommendedChunkSize <= 2000; and a longer text is never recommended a  *)
(* larger chunk size (checked against the next shorter texts, from which   *)
(* it follows for all shorter ones).                                       *)
(***************************************************************************)
\* the lengths among the inputs that are shorter than n by at most 300
NextShorter(n) == {m \in EstimateLengths : m < n /\ n - m <= 300}

SizeFor(n) == estimateTranscript([i \in 1..n |-> "a"]).recommendedChunkSize

C34_SignalsAgree ==
    estimated # <<>>
        => /\ estimated[1].isLongVideo <=> (estimated[1].warningMessage # "none")
           /\ estimated[1].isLongVideo <=> (estimated[1].recommendedChunkSize <= 2000)
           /\ \A m \in NextShorter(Len(text)) :
                  SizeFor(m) >= estimated[1].recommendedChunkSize

\* a text one character beyond 15 minutes: long, warned, 2000 per chunk
C34_Witness ==
    /\ estimated # <<>>
    /\ Len(text) = 9001
    /\ estimated[1].isLongVideo
    /\ estimated[1].warningMessage = "long"
    /\ estimated[1].recommendedChunkSize = 2000

(***************************************************************************)
(* C35: under every order of overlay operations, video events and          *)
(* animation frames at most one animation-frame sync loop is scheduled,    *)
(* the one the overlay holds the id of, and none is scheduled while the    *)
(* overlay is inactive.                                                    *)
(***************************************************************************)
C35_OneSyncLoop ==
    /\ Cardinality(overlay.scheduled) <= 1
    /\ overlay.scheduled \subseteq {overlay.animationFrame}
    /\ ~overlay.isActive => overlay.scheduled = {}

\* the loop was stopped and started again and shows the cue
C35_Witness ==
    /\ overlay.isActive
    /\ overlay.listeners = 2
    /\ overlay.scheduled = {overlay.animationFrame}
    /\ overlay.animationFrame >= 3
    /\ overlay.shown = <<<<"a">>>>

====
